---------------------------- MODULE Spec2Model ----------------------------
(***************************************************************************)
(* A model of meetings.py, the converter of the Trinity Mathematical       *)
(* Society's list of meetings between its fixed-column text ledger and     *)
(* its canonical XML form.                                                 *)
(*                                                                         *)
(* Texts are TLA+ strings, handled with Len, \o and SubSeq.  The module    *)
(* language takes ASCII only, so each non-ASCII character of the program   *)
(* is written as one ASCII character that occurs nowhere else in the       *)
(* model's texts (see rsquo .. pi below).                                  *)
(***************************************************************************)
EXTENDS Integers, Sequences, FiniteSets, TLC

(***************************************************************************)
(* Python values that are not texts.                                       *)
(***************************************************************************)
\* Python's None.  A text no input set contains and no operator produces.
None == "<None>"
\* An exception raised by a function, in place of its return value.
Error == "<Error>"

(***************************************************************************)
(* Characters (meetings.py lines 11-19).                                   *)
(***************************************************************************)
Delta == "$"
pi == "%"
ndash == "_"
mdash == "^"
rsquo == "@"
ldquo == "{"
rdquo == "}"
hellip == "~"

(***************************************************************************)
(* Python's str methods.                                                   *)
(***************************************************************************)
Char(s, i) == SubSeq(s, i, i)

StartsWith(s, t) == Len(s) >= Len(t) /\ SubSeq(s, 1, Len(t)) = t

EndsWith(s, t) == Len(s) >= Len(t) /\ SubSeq(s, Len(s) - Len(t) + 1, Len(s)) = t

\* t in s
Contains(s, t) == \E i \in 1..(Len(s) - Len(t) + 1) : SubSeq(s, i, i + Len(t) - 1) = t

\* s[n:]
Drop(s, n) == SubSeq(s, n + 1, Len(s))

Least(S) == CHOOSE i \in S : \A j \in S : i <= j
Greatest(S) == CHOOSE i \in S : \A j \in S : i >= j

\* The least place of a set of places, 0 for the empty set.
FirstOf(S) == IF S = {} THEN 0 ELSE Least(S)

\* s.find(t) + 1: the first place t occurs at in s, 0 when it does not.
Find(s, t) == FirstOf({i \in 1..(Len(s) - Len(t) + 1) : SubSeq(s, i, i + Len(t) - 1) = t})

\* s with the n characters from place i on replaced by new; s for i = 0.
Spliced(s, i, n, new) ==
    IF i = 0 THEN s ELSE SubSeq(s, 1, i - 1) \o new \o Drop(s, i + n - 1)

\* s.replace(old, new, 1)
ReplaceFirst(s, old, new) == Spliced(s, Find(s, old), Len(old), new)

\* s.replace(old, new): every occurrence, left to right, without overlap.
\* ReplaceFrom goes on from the first occurrence, at place i.
RECURSIVE Replace(_, _, _)
ReplaceFrom(s, old, new, i) ==
    IF i = 0 THEN s
    ELSE SubSeq(s, 1, i - 1) \o new \o Replace(Drop(s, i + Len(old) - 1), old, new)

Replace(s, old, new) == ReplaceFrom(s, old, new, Find(s, old))

Whitespace == {" ", "\t", "\n", "\r", "\f"}

\* The places of s whose character is not in chars.
PlacesNotIn(s, chars) == {i \in 1..Len(s) : Char(s, i) \notin chars}

\* s.rstrip(chars)
LastOf(S) == IF S = {} THEN 0 ELSE Greatest(S)

RStripChars(s, chars) == SubSeq(s, 1, LastOf(PlacesNotIn(s, chars)))

\* s.lstrip(chars)
LStripChars(s, chars) ==
    IF PlacesNotIn(s, chars) = {} THEN "" ELSE Drop(s, Least(PlacesNotIn(s, chars)) - 1)

RStrip(s) == RStripChars(s, Whitespace)
LStrip(s) == LStripChars(s, Whitespace)
Strip(s) == LStrip(RStrip(s))

\* ' ' * n, for n up to 200.
Blank50 == "                                                  "
Spaces(n) == IF n <= 0 THEN "" ELSE SubSeq(Blank50 \o Blank50 \o Blank50 \o Blank50, 1, n)

\* s.ljust(n), '%-ns' % s
LJust(s, n) == s \o Spaces(n - Len(s))

\* s.rjust(n), '%ns' % s
RJust(s, n) == Spaces(n - Len(s)) \o s

Digits == {"0", "1", "2", "3", "4", "5", "6", "7", "8", "9"}
IsDigit(c) == c \in Digits

\* Whether every character of s is in chars.
AllIn(s, chars) == \A i \in 1..Len(s) : Char(s, i) \in chars

\* re.fullmatch(pre + '.*' + post, s), and the text '.*' matched.  A '.' of a
\* regular expression matches any character but a newline.
FullMatchAround(pre, post, s) ==
    /\ Len(s) >= Len(pre) + Len(post)
    /\ StartsWith(s, pre)
    /\ EndsWith(s, post)
    /\ ~Contains(SubSeq(s, Len(pre) + 1, Len(s) - Len(post)), "\n")

Middle(pre, post, s) == SubSeq(s, Len(pre) + 1, Len(s) - Len(post))

\* Whether x is an element of the tuple t.
InTuple(x, t) == \E i \in 1..Len(t) : t[i] = x

(***************************************************************************)
(* The vocabulary tables (meetings.py lines 20-74).                        *)
(***************************************************************************)
joint_societies ==
    << "Adams Society", "Magpie and Stump",
       "Mathematics Research Students" \o rsquo \o " Tea Club",
       "New Pythagoreans", "Trinity College Music Society",
       "Trinity College Natural Sciences Society",
       "Trinity College Science Society" >>

pers_titles_text ==
    << "Prof. ", "Rev. ", "Dr. ", "Hon. ", "Col. ", "Sir ",
       "Lord ", "Mr. ", "Mrs. ", "Ms. ", "Miss " >>

pers_titles_text_adj ==
    [t \in {"Dr. ", "Mr. ", "Mrs. ", "Ms. "} |->
        CASE t = "Dr. " -> "Dr "
          [] t = "Mr. " -> "Mr "
          [] t = "Mrs. " -> "Mrs "
          [] t = "Ms. " -> "Ms "]

pers_titles ==
    << "Prof. ", "Rev. ", "Dr ", "Hon. ", "Col. ", "Sir ",
       "Lord ", "Mr ", "Mrs ", "Ms ", "Miss " >>

\* The empty dictionary Speaker.__init__ passes to get_title.
no_adj == [t \in {} |-> ""]

roles == << "proponent", "opponent", "author", "producer" >>

meeting_types ==
    << "talk", "talks", "sporting event", "dinner", "debate",
       "inaugural meeting", "film night", "panel discussion",
       "opera", "photograph", "recreational", "visit",
       "general meeting", "business meeting", "discussion" >>

meeting_flags == << "non-election business", "election of officers", "televised" >>

venues ==
    << "",
       "Adrian House Seminar Room",
       "the College Bar (Q1 Great Court, 1958" \o ndash \o "1998)",
       "Blue Boar Common Room",
       "Butler House Party Room",
       "Caius College",
       "river Cam",
       "Christ" \o rsquo \o "s College",
       "DAMTP",
       "Emmanuel College",
       "Hall",
       "Junior Combination Room",
       "Junior Parlour",
       "Lecture-Room Theatre (I Great Court)",
       "Lecture Rooms (I Great Court)",
       "Master" \o rsquo \o "s Lodge",
       "Old Combination Room",
       "Old Field",
       "Old Kitchens",
       "Private Supply Room",
       "St John" \o rsquo \o "s College",
       "Winstanley Lecture Theatre",
       "Wolfson Party Room" >>

\* Each pattern of venues_re is a text, '.*', a text: the pair of the texts.
venues_re ==
    << <<"", " Blue Boar Court">>,
       <<"Room ", ", 4A Bridge Street">>,
       <<"", " Bishop" \o rsquo \o "s Hostel">>,
       <<"", " Great Court">>,
       <<"", " Whewell" \o rsquo \o "s Court">>,
       <<"", " New Court">>,
       <<"Lecture Room ", " (I Great Court)">>,
       <<"Centre for Mathematical Sciences MR", "">>,
       <<"", " Nevile" \o rsquo \o "s Court">> >>

(***************************************************************************)
(* get_title (meetings.py lines 77-88).                                    *)
(***************************************************************************)
\* The loop over tlist from its i-th title on, with the title and name so far.
RECURSIVE get_title_from(_, _, _, _, _)
get_title_from(i, title, name, tlist, tlist_adj) ==
    IF i > Len(tlist) THEN <<RStrip(title), name>>
    ELSE LET t == tlist[i]
         IN  IF StartsWith(name, t)
             THEN get_title_from(i + 1,
                                 title \o (IF t \in DOMAIN tlist_adj THEN tlist_adj[t] ELSE t),
                                 Drop(name, Len(t)), tlist, tlist_adj)
             ELSE get_title_from(i + 1, title, name, tlist, tlist_adj)

get_title(name, tlist, tlist_adj) == get_title_from(1, "", name, tlist, tlist_adj)

(***************************************************************************)
(* check_unicode (meetings.py lines 91-106): TRUE when it raises.          *)
(***************************************************************************)
\* re.search(r'[0-9]-[0-9]', text)
HasDigitHyphenDigit(text) ==
    \E i \in 1..(Len(text) - 2) :
        IsDigit(Char(text, i)) /\ Char(text, i + 1) = "-" /\ IsDigit(Char(text, i + 2))

\* re.search(r'[0-9]-\Z', text)
HasFinalDigitHyphen(text) ==
    Len(text) >= 2 /\ IsDigit(Char(text, Len(text) - 1)) /\ Char(text, Len(text)) = "-"

\* check_unicode without the test for a space followed by a hyphen.
check_unicode_dash_unchecked(text) ==
    IF text = None THEN FALSE
    ELSE \/ Contains(text, "\"")
         \/ Contains(text, "'")
         \/ Contains(text, "...")
         \/ HasDigitHyphenDigit(text)
         \/ HasFinalDigitHyphen(text)

check_unicode(text) ==
    IF text = None THEN FALSE
    ELSE \/ Contains(text, "\"")
         \/ Contains(text, "'")
         \/ Contains(text, "...")
         \/ Contains(text, " -")
         \/ HasDigitHyphenDigit(text)
         \/ HasFinalDigitHyphen(text)

(***************************************************************************)
(* convert_text, unconvert_text (meetings.py lines 329-360).               *)
(***************************************************************************)
\* The loop of lines 339-341.
RECURSIVE ConvertQuotes(_)
ConvertQuotes(text) ==
    IF Contains(text, "\"")
    THEN ConvertQuotes(ReplaceFirst(ReplaceFirst(text, "\"", ldquo), "\"", rdquo))
    ELSE text

\* re.sub(r'([0-9])-([0-9])', r'\1'+ndash+r'\2', text): the matches are taken
\* left to right and do not overlap, so the scan goes on after a match's
\* second digit.
DigitHyphenDigitPlaces(text) ==
    {i \in 1..(Len(text) - 2) :
        IsDigit(Char(text, i)) /\ Char(text, i + 1) = "-" /\ IsDigit(Char(text, i + 2))}

\* SubDigitHyphenDigitFrom goes on from the first match, at place i.
RECURSIVE SubDigitHyphenDigit(_)
SubDigitHyphenDigitFrom(text, i) ==
    IF i = 0 THEN text
    ELSE SubSeq(text, 1, i) \o ndash \o Char(text, i + 2)
         \o SubDigitHyphenDigit(Drop(text, i + 2))

SubDigitHyphenDigit(text) ==
    SubDigitHyphenDigitFrom(text, FirstOf(DigitHyphenDigitPlaces(text)))

\* re.sub(r'([0-9])-\Z', r'\1'+ndash, text)
SubFinalDigitHyphen(text) ==
    IF HasFinalDigitHyphen(text)
    THEN SubSeq(text, 1, Len(text) - 1) \o ndash
    ELSE text

\* convert_text without line 343: a final digit-hyphen is left.
convert_text_keeping_final_hyphen(text) ==
    IF text = None THEN None
    ELSE LET t1 == Replace(text, "'", rsquo)
             t2 == Replace(t1, "...", hellip)
             t3 == Replace(t2, "\\pi", pi)
             t4 == Replace(t3, "\\Delta", Delta)
             t5 == Replace(t4, " - ", mdash)
             t6 == ConvertQuotes(t5)
         IN  SubDigitHyphenDigit(t6)

convert_text(text) ==
    IF text = None THEN None
    ELSE LET t1 == Replace(text, "'", rsquo)
             t2 == Replace(t1, "...", hellip)
             t3 == Replace(t2, "\\pi", pi)
             t4 == Replace(t3, "\\Delta", Delta)
             t5 == Replace(t4, " - ", mdash)
             t6 == ConvertQuotes(t5)
             t7 == SubDigitHyphenDigit(t6)
         IN  SubFinalDigitHyphen(t7)

\* unconvert_text without line 359: the en dash is left.
unconvert_text_keeping_ndash(text) ==
    IF text = None THEN None
    ELSE LET t1 == Replace(text, rsquo, "'")
             t2 == Replace(t1, hellip, "...")
             t3 == Replace(t2, pi, "\\pi")
             t4 == Replace(t3, Delta, "\\Delta")
             t5 == Replace(t4, mdash, " - ")
             t6 == Replace(t5, ldquo, "\"")
         IN  Replace(t6, rdquo, "\"")

unconvert_text(text) ==
    IF text = None THEN None
    ELSE LET t1 == Replace(text, rsquo, "'")
             t2 == Replace(t1, hellip, "...")
             t3 == Replace(t2, pi, "\\pi")
             t4 == Replace(t3, Delta, "\\Delta")
             t5 == Replace(t4, mdash, " - ")
             t6 == Replace(t5, ldquo, "\"")
             t7 == Replace(t6, rdquo, "\"")
         IN  Replace(t7, ndash, "-")

(***************************************************************************)
(* The record model (meetings.py lines 109-326).  A constructor X comes    *)
(* with X_raises, TRUE of the arguments its __init__ raises on; X is the   *)
(* object built when it does not raise.                                    *)
(***************************************************************************)
\* bool(v) of a text or None.
Truthy(v) == v # None /\ v # ""

\* Speaker.__init__ (lines 112-122).  A title of None makes title+' ' raise.
Speaker_raises(title, first, last, role) ==
    \/ title = None
    \/ get_title(title \o " ", pers_titles, no_adj)[1] # title
    \/ (Truthy(role) /\ ~InTuple(role, roles))

Speaker(title, first, last, role) ==
    [title |-> title, first |-> first, last |-> last, role |-> role]

\* Speaker.__init__ called with the fields of sp as its arguments.
Speaker_fields_raise(sp) == Speaker_raises(sp.title, sp.first, sp.last, sp.role)

\* SubMeeting.__init__ without the test of lines 151-153.
SubMeeting_raises_both_allowed(desc, title, note, speakers) ==
    \/ check_unicode(desc)
    \/ check_unicode(title)
    \/ check_unicode(note)

\* SubMeeting.__init__ (lines 146-160).
SubMeeting_raises(desc, title, note, speakers) ==
    \/ (Truthy(desc) /\ Truthy(title))
    \/ check_unicode(desc)
    \/ check_unicode(title)
    \/ check_unicode(note)

SubMeeting(desc, title, note, speakers) ==
    [desc |-> desc, title |-> title, note |-> note, speakers |-> speakers]

\* re.fullmatch(r'[1-9][0-9]{3}-[01?][0-9?]-[0123?][0-9?]', date)
DateMatches(date) ==
    /\ Len(date) = 10
    /\ Char(date, 1) \in Digits \ {"0"}
    /\ AllIn(SubSeq(date, 2, 4), Digits)
    /\ Char(date, 5) = "-"
    /\ Char(date, 6) \in {"0", "1", "?"}
    /\ Char(date, 7) \in Digits \cup {"?"}
    /\ Char(date, 8) = "-"
    /\ Char(date, 9) \in {"0", "1", "2", "3", "?"}
    /\ Char(date, 10) \in Digits \cup {"?"}

\* re.fullmatch(r'[1-9][0-9]*', s)
NumberMatches(s) ==
    Len(s) >= 1 /\ Char(s, 1) \in Digits \ {"0"} /\ AllIn(s, Digits)

\* re.fullmatch(r'[1-9][0-9]*\+?', s)
AttendanceMatches(s) ==
    \/ NumberMatches(s)
    \/ (EndsWith(s, "+") /\ NumberMatches(SubSeq(s, 1, Len(s) - 1)))

\* Lines 215-222: TRUE when the venue is accepted.
venue_ok(venue) ==
    \/ InTuple(venue, venues)
    \/ \E i \in 1..Len(venues_re) : FullMatchAround(venues_re[i][1], venues_re[i][2], venue)

\* Meeting.__init__ without the loop of lines 209-211.
Meeting_raises_joint_unchecked(number, date, type, flags, joint, sub, venue, attendance, volume, page) ==
    \/ date = None
    \/ (date # "" /\ ~DateMatches(date))
    \/ ~InTuple(type, meeting_types)
    \/ \E i \in 1..Len(flags) : ~InTuple(flags[i], meeting_flags)
    \/ venue = None
    \/ ~venue_ok(venue)
    \/ attendance = None
    \/ (attendance # "" /\ attendance # "?" /\ ~AttendanceMatches(attendance))
    \/ page = None
    \/ (page # "-" /\ page # "?" /\ ~NumberMatches(page))

\* Meeting.__init__ (lines 194-234).  re.fullmatch raises on None.
Meeting_raises(number, date, type, flags, joint, sub, venue, attendance, volume, page) ==
    \/ date = None
    \/ (date # "" /\ ~DateMatches(date))
    \/ ~InTuple(type, meeting_types)
    \/ \E i \in 1..Len(flags) : ~InTuple(flags[i], meeting_flags)
    \/ \E i \in 1..Len(joint) : ~InTuple(joint[i], joint_societies)
    \/ venue = None
    \/ ~venue_ok(venue)
    \/ attendance = None
    \/ (attendance # "" /\ attendance # "?" /\ ~AttendanceMatches(attendance))
    \/ page = None
    \/ (page # "-" /\ page # "?" /\ ~NumberMatches(page))

\* Meeting.__init__ called with the fields of m as its arguments.
Meeting_fields_raise(m) ==
    Meeting_raises(m.number, m.date, m.type, m.flags, m.joint, m.sub, m.venue,
                   m.attendance, m.volume, m.page)

\* A Meeting and a Note are told apart (isinstance) by the field class.
Meeting(number, date, type, flags, joint, sub, venue, attendance, volume, page) ==
    [class |-> "Meeting", number |-> number, date |-> date, type |-> type,
     flags |-> flags, joint |-> joint, sub |-> sub, venue |-> venue,
     attendance |-> attendance, volume |-> volume, page |-> page]

\* Note.__init__ (lines 315-318).
Note_raises(text) == check_unicode(text)

Note(text) == [class |-> "Note", text |-> text]

(***************************************************************************)
(* The canonical XML text (xml_text methods, meetings_to_xml).  A document *)
(* is modelled as the tree of its elements, in the order written: an       *)
(* element is its tag, its character data as written in the file (so       *)
(* escaped) and its child elements.  The fixed indentation and line breaks *)
(* between elements are not modelled: they are the same for every document *)
(* of the same tree.                                                       *)
(***************************************************************************)
Elem(tag, text, kids) == [tag |-> tag, text |-> text, kids |-> kids]

\* html.escape(s), quote=True.
html_escape(s) ==
    LET t1 == Replace(s, "&", "&amp;")
        t2 == Replace(t1, "<", "&lt;")
        t3 == Replace(t2, ">", "&gt;")
        t4 == Replace(t3, "\"", "&quot;")
    IN  Replace(t4, "'", "&#x27;")

\* Speaker.xml_text (lines 124-132).  html.escape(None) raises.
Speaker_xml_raises(sp) == sp.title = None \/ sp.first = None \/ sp.last = None

Speaker_xml_text(sp) ==
    Elem("speaker", "",
         << Elem("stitle", html_escape(sp.title), <<>>),
            Elem("first", html_escape(sp.first), <<>>),
            Elem("last", html_escape(sp.last), <<>>) >>
         \o (IF Truthy(sp.role) THEN << Elem("role", html_escape(sp.role), <<>>) >> ELSE <<>>))

\* SubMeeting.xml_text (lines 162-173).
SubMeeting_xml_raises(s) == \E i \in 1..Len(s.speakers) : Speaker_xml_raises(s.speakers[i])

SubMeeting_xml_text(s) ==
    Elem("sub", "",
         [i \in 1..Len(s.speakers) |-> Speaker_xml_text(s.speakers[i])]
         \o (IF Truthy(s.desc) THEN << Elem("desc", html_escape(s.desc), <<>>) >> ELSE <<>>)
         \o (IF Truthy(s.title) THEN << Elem("title", html_escape(s.title), <<>>) >> ELSE <<>>)
         \o (IF Truthy(s.note) THEN << Elem("mnote", html_escape(s.note), <<>>) >> ELSE <<>>))

\* Meeting.xml_text (lines 236-254).
Meeting_xml_raises(m) ==
    \/ m.number = None
    \/ m.volume = None
    \/ \E i \in 1..Len(m.sub) : SubMeeting_xml_raises(m.sub[i])

\* Meeting.xml_text with the flags written once each, in the order of
\* meeting_flags, in place of the loop of lines 242-243.
Meeting_xml_text_flags_sorted(m) ==
    Elem("meeting", "",
         << Elem("number", html_escape(m.number), <<>>),
            Elem("date", html_escape(m.date), <<>>),
            Elem("type", html_escape(m.type), <<>>) >>
         \o [i \in 1..Len(SelectSeq(meeting_flags, LAMBDA f : InTuple(f, m.flags))) |->
                Elem("flag",
                     html_escape(SelectSeq(meeting_flags, LAMBDA f : InTuple(f, m.flags))[i]),
                     <<>>)]
         \o [i \in 1..Len(m.joint) |-> Elem("joint", html_escape(m.joint[i]), <<>>)]
         \o [i \in 1..Len(m.sub) |-> SubMeeting_xml_text(m.sub[i])]
         \o << Elem("venue", html_escape(m.venue), <<>>) >>
         \o (IF Truthy(m.attendance)
             THEN << Elem("attendance", html_escape(m.attendance), <<>>) >> ELSE <<>>)
         \o << Elem("minutes", "",
                    << Elem("volume", html_escape(m.volume), <<>>),
                       Elem("page", html_escape(m.page), <<>>) >>) >>)

Meeting_xml_text(m) ==
    Elem("meeting", "",
         << Elem("number", html_escape(m.number), <<>>),
            Elem("date", html_escape(m.date), <<>>),
            Elem("type", html_escape(m.type), <<>>) >>
         \o [i \in 1..Len(m.flags) |-> Elem("flag", html_escape(m.flags[i]), <<>>)]
         \o [i \in 1..Len(m.joint) |-> Elem("joint", html_escape(m.joint[i]), <<>>)]
         \o [i \in 1..Len(m.sub) |-> SubMeeting_xml_text(m.sub[i])]
         \o << Elem("venue", html_escape(m.venue), <<>>) >>
         \o (IF Truthy(m.attendance)
             THEN << Elem("attendance", html_escape(m.attendance), <<>>) >> ELSE <<>>)
         \o << Elem("minutes", "",
                    << Elem("volume", html_escape(m.volume), <<>>),
                       Elem("page", html_escape(m.page), <<>>) >>) >>)

\* Note.xml_text (lines 320-322).
Note_xml_raises(n) == n.text = None

Note_xml_text(n) == Elem("note", html_escape(n.text), <<>>)

entry_xml_raises(e) ==
    IF e.class = "Note" THEN Note_xml_raises(e) ELSE Meeting_xml_raises(e)

entry_xml_text(e) ==
    IF e.class = "Note" THEN Note_xml_text(e) ELSE Meeting_xml_text(e)

\* meetings_to_xml (lines 681-687): the children of the root element.
meetings_to_xml_raises(meeting_list) ==
    \E i \in 1..Len(meeting_list) : entry_xml_raises(meeting_list[i])

meetings_to_xml(meeting_list) ==
    [i \in 1..Len(meeting_list) |-> entry_xml_text(meeting_list[i])]

(***************************************************************************)
(* meetings_from_xml (meetings.py lines 363-422), on the element tree the  *)
(* XML parser builds from the file.                                        *)
(***************************************************************************)
\* The character data of an element as the parser delivers it: line ends
\* are normalised to a line feed, then the references html.escape writes are
\* replaced by their characters.
char_data(s) ==
    LET t1 == Replace(s, "\r\n", "\n")
        t2 == Replace(t1, "\r", "\n")
        t3 == Replace(t2, "&lt;", "<")
        t4 == Replace(t3, "&gt;", ">")
        t5 == Replace(t4, "&quot;", "\"")
        t6 == Replace(t5, "&#x27;", "'")
    IN  Replace(t6, "&amp;", "&")

\* Element.text: None for an element without character data.
none_if_empty(t) == IF t = "" THEN None ELSE t

elem_text(e) == none_if_empty(char_data(e.text))

\* Element.findall(tag)
findall(kids, tag) == SelectSeq(kids, LAMBDA k : k.tag = tag)

\* Element.find(tag) is not None
has(kids, tag) == \E i \in 1..Len(kids) : kids[i].tag = tag

\* Element.find(tag).text, of an element that has such a child.
find_text(kids, tag) == elem_text(findall(kids, tag)[1])

\* x.text if x is not None else '', for x = Element.find(tag)
find_text_or_empty(kids, tag) == IF has(kids, tag) THEN find_text(kids, tag) ELSE ""

\* v if v else ''
or_empty(v) == IF Truthy(v) THEN v ELSE ""

\* The grandchildren Element.find('minutes/...') looks through.
RECURSIVE minutes_kids(_)
minutes_kids(kids) ==
    IF kids = <<>> THEN <<>>
    ELSE (IF Head(kids).tag = "minutes" THEN Head(kids).kids ELSE <<>>)
         \o minutes_kids(Tail(kids))

\* Lines 389-394.  The .text of a missing element raises.
speaker_from_xml_raises(sp) ==
    \/ ~has(sp.kids, "stitle")
    \/ ~has(sp.kids, "first")
    \/ ~has(sp.kids, "last")
    \/ Speaker_raises(find_text(sp.kids, "stitle"), find_text(sp.kids, "first"),
                      find_text(sp.kids, "last"), find_text_or_empty(sp.kids, "role"))

\* speaker_from_xml without lines 392-393: the role is not read.
speaker_from_xml_without_role(sp) ==
    Speaker(find_text(sp.kids, "stitle"), find_text(sp.kids, "first"),
            find_text(sp.kids, "last"), "")

speaker_from_xml(sp) ==
    Speaker(find_text(sp.kids, "stitle"), find_text(sp.kids, "first"),
            find_text(sp.kids, "last"), find_text_or_empty(sp.kids, "role"))

\* Lines 385-401.
sub_from_xml_raises(s) ==
    \/ \E i \in 1..Len(findall(s.kids, "speaker")) :
          speaker_from_xml_raises(findall(s.kids, "speaker")[i])
    \/ SubMeeting_raises(find_text_or_empty(s.kids, "desc"),
                         find_text_or_empty(s.kids, "title"),
                         find_text_or_empty(s.kids, "mnote"), <<>>)

sub_from_xml(s) ==
    LET speakers_xml == findall(s.kids, "speaker")
    IN  SubMeeting(find_text_or_empty(s.kids, "desc"),
                   find_text_or_empty(s.kids, "title"),
                   find_text_or_empty(s.kids, "mnote"),
                   [i \in 1..Len(speakers_xml) |-> speaker_from_xml(speakers_xml[i])])

\* bad_talk_count without lines 402-407: no count of subs is refused.
bad_talk_count_unchecked(type, nsub) == FALSE

\* Lines 402-407: TRUE when the count of subs contradicts the type.
bad_talk_count(type, nsub) ==
    \/ (type = "talk" /\ nsub # 1)
    \/ (type = "talks" /\ nsub <= 1)

\* meeting_from_xml without line 383: the joint societies are not read.
meeting_from_xml_without_joint(entry) ==
    LET k == entry.kids
        sub_xml == findall(k, "sub")
        flag_xml == findall(k, "flag")
    IN  Meeting(or_empty(find_text(k, "number")),
                or_empty(find_text(k, "date")),
                find_text(k, "type"),
                [i \in 1..Len(flag_xml) |-> elem_text(flag_xml[i])],
                <<>>,
                [i \in 1..Len(sub_xml) |-> sub_from_xml(sub_xml[i])],
                or_empty(find_text(k, "venue")),
                find_text_or_empty(k, "attendance"),
                find_text(minutes_kids(k), "volume"),
                find_text(minutes_kids(k), "page"))

\* Lines 376-417.
meeting_from_xml(entry) ==
    LET k == entry.kids
        sub_xml == findall(k, "sub")
        flag_xml == findall(k, "flag")
        joint_xml == findall(k, "joint")
    IN  Meeting(or_empty(find_text(k, "number")),
                or_empty(find_text(k, "date")),
                find_text(k, "type"),
                [i \in 1..Len(flag_xml) |-> elem_text(flag_xml[i])],
                [i \in 1..Len(joint_xml) |-> elem_text(joint_xml[i])],
                [i \in 1..Len(sub_xml) |-> sub_from_xml(sub_xml[i])],
                or_empty(find_text(k, "venue")),
                find_text_or_empty(k, "attendance"),
                find_text(minutes_kids(k), "volume"),
                find_text(minutes_kids(k), "page"))

meeting_from_xml_raises(entry) ==
    LET k == entry.kids
        sub_xml == findall(k, "sub")
    IN  \/ ~has(k, "number") \/ ~has(k, "date") \/ ~has(k, "type") \/ ~has(k, "venue")
        \/ ~has(minutes_kids(k), "volume") \/ ~has(minutes_kids(k), "page")
        \/ \E i \in 1..Len(sub_xml) : sub_from_xml_raises(sub_xml[i])
        \/ bad_talk_count(find_text(k, "type"), Len(sub_xml))
        \/ Meeting_fields_raise(meeting_from_xml(entry))

\* Lines 374-421, one entry of the root.
entry_from_xml_raises(entry) ==
    CASE entry.tag = "meeting" -> meeting_from_xml_raises(entry)
      [] entry.tag = "note" -> Note_raises(elem_text(entry))
      [] OTHER -> TRUE

entry_from_xml(entry) ==
    IF entry.tag = "meeting" THEN meeting_from_xml(entry) ELSE Note(elem_text(entry))

meetings_from_xml_raises(root) ==
    \E i \in 1..Len(root) : entry_from_xml_raises(root[i])

meetings_from_xml(root) == [i \in 1..Len(root) |-> entry_from_xml(root[i])]

(***************************************************************************)
(* The tables of the text format (meetings.py lines 425-487).  A           *)
(* dictionary the program only looks keys up in is a function; one it      *)
(* iterates over is the tuple of its (key, value) pairs, in order.         *)
(***************************************************************************)
volumes ==
    [r \in {"I", "II", "III", "IV", "V", "VI", "VII", "VIII", "IX", "X", "XI", "XII"} |->
        CASE r = "I" -> "1" [] r = "II" -> "2" [] r = "III" -> "3" [] r = "IV" -> "4"
          [] r = "V" -> "5" [] r = "VI" -> "6" [] r = "VII" -> "7" [] r = "VIII" -> "8"
          [] r = "IX" -> "9" [] r = "X" -> "10" [] r = "XI" -> "11" [] r = "XII" -> "12"]

format_hdr ==
    "mmmxx yyyy-mm-dd fff joint speaker" \o Spaces(26) \o "title" \o Spaces(99)
    \o "venue ppp aud"

volume_hdr == "VOLUME "

joint_map ==
    [j \in {"", "Adams", "M&S", "A/M&S", "MRSTC", "NP", "TCMS", "TCNSS", "TCSS"} |->
        CASE j = "" -> <<>>
          [] j = "Adams" -> <<"Adams Society">>
          [] j = "M&S" -> <<"Magpie and Stump">>
          [] j = "A/M&S" -> <<"Adams Society", "Magpie and Stump">>
          [] j = "MRSTC" -> <<"Mathematics Research Students" \o rsquo \o " Tea Club">>
          [] j = "NP" -> <<"New Pythagoreans">>
          [] j = "TCMS" -> <<"Trinity College Music Society">>
          [] j = "TCNSS" -> <<"Trinity College Natural Sciences Society">>
          [] j = "TCSS" -> <<"Trinity College Science Society">>]

role_map ==
    [r \in {"prop", "opp", "author", "producer"} |->
        CASE r = "prop" -> "proponent"
          [] r = "opp" -> "opponent"
          [] r = "author" -> "author"
          [] r = "producer" -> "producer"]

type_map ==
    [c \in {"c", "d", "f", "i", "m", "n", "o", "p", "r", "v"} |->
        CASE c = "c" -> "sporting event"
          [] c = "d" -> "dinner"
          [] c = "f" -> "debate"
          [] c = "i" -> "inaugural meeting"
          [] c = "m" -> "film night"
          [] c = "n" -> "panel discussion"
          [] c = "o" -> "opera"
          [] c = "p" -> "photograph"
          [] c = "r" -> "recreational"
          [] c = "v" -> "visit"]

flag_map ==
    [c \in {"b", "e", "t"} |->
        CASE c = "b" -> "non-election business"
          [] c = "e" -> "election of officers"
          [] c = "t" -> "televised"]

venue_map ==
    << <<"AHSR", "Adrian House Seminar Room">>,
       <<"BBCR", "Blue Boar Common Room">>,
       <<"BHPR", "Butler House Party Room">>,
       <<"CAI", "Caius College">>,
       <<"CAM", "river Cam">>,
       <<"CHR", "Christ" \o rsquo \o "s College">>,
       <<"DAMTP", "DAMTP">>,
       <<"EMM", "Emmanuel College">>,
       <<"Hall", "Hall">>,
       <<"JCR", "Junior Combination Room">>,
       <<"JP", "Junior Parlour">>,
       <<"LRT", "Lecture-Room Theatre (I Great Court)">>,
       <<"ML", "Master" \o rsquo \o "s Lodge">>,
       <<"OCR", "Old Combination Room">>,
       <<"OF", "Old Field">>,
       <<"OK", "Old Kitchens">>,
       <<"PSR", "Private Supply Room">>,
       <<"SJC", "St John" \o rsquo \o "s College">>,
       <<"WLT", "Winstanley Lecture Theatre">>,
       <<"WPR", "Wolfson Party Room">> >>

\* Each template 'a%sb' is the pair of the texts a and b.
venue_map_suffix ==
    << <<"BB", <<"", " Blue Boar Court">> >>,
       <<"BS", <<"Room ", ", 4A Bridge Street">> >>,
       <<"B", <<"", " Bishop" \o rsquo \o "s Hostel">> >>,
       <<"G", <<"", " Great Court">> >>,
       <<"H", <<"", " Whewell" \o rsquo \o "s Court">> >>,
       <<"K", <<"", " New Court">> >>,
       <<"LR", <<"Lecture Room ", " (I Great Court)">> >>,
       <<"MR", <<"Centre for Mathematical Sciences MR", "">> >>,
       <<"N", <<"", " Nevile" \o rsquo \o "s Court">> >> >>

venue_bar_text == "Q1 Great Court"

venue_bar == "the College Bar (Q1 Great Court, 1958" \o ndash \o "1998)"

\* The places of the pairs of a tuple of pairs whose key (value) is x.
KeyPlaces(pairs, x) == {i \in 1..Len(pairs) : pairs[i][1] = x}
ValuePlaces(pairs, x) == {i \in 1..Len(pairs) : pairs[i][2] = x}

(***************************************************************************)
(* Venue codes: meetings_from_text lines 581-597 and their inverse,        *)
(* meetings_to_text lines 800-822.                                         *)
(***************************************************************************)
\* The places of the templates whose prefix the code starts with.
SuffixPlaces(venue) ==
    {i \in 1..Len(venue_map_suffix) : StartsWith(venue, venue_map_suffix[i][1])}

\* Lines 581-597, for a non-empty code: TRUE when 'unknown venue' is raised.
venue_from_code_raises(venue, date) ==
    KeyPlaces(venue_map, venue) = {} /\ SuffixPlaces(venue) = {}

\* Line 589: venue_map_suffix[v] % venue[len(v):], for the template pair.
suffix_applied(pair, venue) == pair[2][1] \o Drop(venue, Len(pair[1])) \o pair[2][2]

\* Lines 594-595.
bar_rewritten(venue, date) ==
    IF venue = venue_bar_text /\ date = "1979-04-23" THEN venue_bar ELSE venue

\* Lines 596-597.
rooms_rewritten(venue) ==
    IF venue = "Lecture Room  (I Great Court)" THEN "Lecture Rooms (I Great Court)" ELSE venue

venue_from_code(venue, date) ==
    IF KeyPlaces(venue_map, venue) # {}
    THEN venue_map[Least(KeyPlaces(venue_map, venue))][2]
    ELSE rooms_rewritten(
             bar_rewritten(
                 suffix_applied(venue_map_suffix[Least(SuffixPlaces(venue))], venue), date))

\* Lines 581-597 on the venue column of a line.
venue_column(venue, date) == IF venue = "" THEN "" ELSE venue_from_code(venue, date)

venue_column_raises(venue, date) == venue # "" /\ venue_from_code_raises(venue, date)

\* Lines 802-804.
bar_unrewritten(m_venue) == IF m_venue = venue_bar THEN venue_bar_text ELSE m_venue

\* Lines 805-806 left out.
rooms_kept(mvenue) == mvenue

\* Lines 805-806.
rooms_unrewritten(mvenue) ==
    IF mvenue = "Lecture Rooms (I Great Court)" THEN "Lecture Room  (I Great Court)" ELSE mvenue

\* Lines 802-806.
venue_unrewritten(m_venue) == rooms_unrewritten(bar_unrewritten(m_venue))

\* The places of the templates whose pattern, '%s' made '(.*)', matches.
TemplatePlaces(mvenue) ==
    {i \in 1..Len(venue_map_suffix) :
        FullMatchAround(venue_map_suffix[i][2][1], venue_map_suffix[i][2][2], mvenue)}

\* Line 817: the prefix of the template pair and the text its '(.*)' matched.
suffix_unapplied(pair, mvenue) == pair[1] \o Middle(pair[2][1], pair[2][2], mvenue)

\* Lines 807-820 on the venue with the rewrites undone: "" when no code is
\* found.
code_of(mvenue) ==
    IF ValuePlaces(venue_map, mvenue) # {}
    THEN venue_map[Least(ValuePlaces(venue_map, mvenue))][1]
    ELSE IF TemplatePlaces(mvenue) # {}
    THEN suffix_unapplied(venue_map_suffix[Least(TemplatePlaces(mvenue))], mvenue)
    ELSE ""

\* Lines 800-822, for a non-empty venue.  An empty code found counts as
\* none found (line 821): 'could not convert venue' is raised.
venue_to_code(m_venue) == code_of(venue_unrewritten(m_venue))

venue_to_code_raises(m_venue) == venue_to_code(m_venue) = ""

\* Lines 800-822: the venue column written for a Meeting's venue.
venue_text(m_venue) == IF Truthy(m_venue) THEN venue_to_code(m_venue) ELSE ""

venue_text_raises(m_venue) == Truthy(m_venue) /\ venue_to_code_raises(m_venue)

(***************************************************************************)
(* meetings_from_text (meetings.py lines 488-678): the parts of the loop   *)
(* body.                                                                   *)
(***************************************************************************)
\* The width a meeting line is padded to (line 518).
LineWidth == 178

\* Lines 521-540: the columns of a padded line.  Python's line[a:b] is
\* SubSeq(line, a+1, b), its line[a] is Char(line, a+1).
line_fields(line) ==
    LET speaker == RStrip(SubSeq(line, 28, 59))
        desc == RStrip(SubSeq(line, 61, 163))
        unminuted == speaker = "unminuted" /\ desc = ""
    IN  [number |-> Strip(SubSeq(line, 1, 5)),
         date |-> Strip(SubSeq(line, 7, 16)),
         flags |-> RStrip(SubSeq(line, 18, 20)),
         joint |-> LStrip(SubSeq(line, 22, 26)),
         speaker |-> IF unminuted THEN "" ELSE speaker,
         desc |-> IF unminuted THEN "(unminuted)" ELSE desc,
         venue |-> RStrip(SubSeq(line, 165, 169)),
         page |-> LStrip(SubSeq(line, 171, 173)),
         attendance |-> Strip(SubSeq(line, 175, LineWidth)),
         seps |-> Char(line, 6) \o Char(line, 17) \o Char(line, 21) \o Char(line, 27)
                  \o Char(line, 60) \o Char(line, 164) \o Char(line, 170)
                  \o Char(line, 174)]

\* Lines 541-547: TRUE when the layout of the columns is refused.
line_fields_raise(f) ==
    \/ f.seps # Spaces(8)
    \/ StartsWith(f.speaker, " ")
    \/ StartsWith(f.desc, " ")

\* Lines 556-567: the loop over the flag letters from the i-th on, with the
\* type and the flags so far; bad is set where the loop raises.
RECURSIVE flags_from(_, _, _, _)
flags_from(flags, i, type, flags_list) ==
    IF i > Len(flags) THEN [type |-> type, flags_list |-> flags_list, bad |-> FALSE]
    ELSE LET f == Char(flags, i)
         IN  IF f \in DOMAIN type_map
             THEN IF type # ""
                  THEN [type |-> type, flags_list |-> flags_list, bad |-> TRUE]
                  ELSE flags_from(flags, i + 1, type_map[f], flags_list)
             ELSE IF f \in DOMAIN flag_map
             THEN flags_from(flags, i + 1, type, Append(flags_list, flag_map[f]))
             ELSE [type |-> type, flags_list |-> flags_list, bad |-> TRUE]

\* Lines 568-580 with the plural type for a line with a speaker.
inferred_type_plural(speaker, desc) ==
    IF speaker # "" \/ desc = "(no speaker present)" \/ desc = "(unminuted)" THEN "talks"
    ELSE IF Contains(desc, "General Meeting") THEN "general meeting"
    ELSE IF Contains(desc, "Business Meeting") THEN "business meeting"
    ELSE IF StartsWith(desc, "Discussion") THEN "discussion"
    ELSE ""

\* Lines 568-580 with the tests of lines 573 and 575 in the other order.
inferred_type_business_first(speaker, desc) ==
    IF speaker # "" \/ desc = "(no speaker present)" \/ desc = "(unminuted)" THEN "talk"
    ELSE IF Contains(desc, "Business Meeting") THEN "business meeting"
    ELSE IF Contains(desc, "General Meeting") THEN "general meeting"
    ELSE IF StartsWith(desc, "Discussion") THEN "discussion"
    ELSE ""

\* Lines 568-580: the type of a meeting without a type letter, "" where
\* 'unknown meeting type' is raised.
inferred_type(speaker, desc) ==
    IF speaker # "" \/ desc = "(no speaker present)" \/ desc = "(unminuted)" THEN "talk"
    ELSE IF Contains(desc, "General Meeting") THEN "general meeting"
    ELSE IF Contains(desc, "Business Meeting") THEN "business meeting"
    ELSE IF StartsWith(desc, "Discussion") THEN "discussion"
    ELSE ""

\* Lines 598-603.
page_from_text(page) ==
    IF page = "---" \/ page = "" THEN "-" ELSE IF page = "???" THEN "?" ELSE page

attendance_from_text(attendance) == IF attendance = "??" THEN "?" ELSE attendance

\* Lines 568-580 after the loop over the flag letters left fl.
type_of_line(fl, f) == IF fl.type = "" THEN inferred_type(f.speaker, f.desc) ELSE fl.type

\* Lines 604-606, after the loop over the flag letters left fl.
new_meeting_flagged(fl, f, cur_volume) ==
    Meeting(f.number, f.date, type_of_line(fl, f), fl.flags_list, joint_map[f.joint], <<>>,
            venue_column(f.venue, f.date),
            attendance_from_text(f.attendance),
            cur_volume,
            page_from_text(f.page))

new_meeting_flagged_raises(fl, f, cur_volume) ==
    \/ fl.bad
    \/ type_of_line(fl, f) = ""
    \/ venue_column_raises(f.venue, f.date)
    \/ f.joint \notin DOMAIN joint_map
    \/ Meeting_fields_raise(new_meeting_flagged(fl, f, cur_volume))

\* Lines 556-606: the Meeting a new-meeting line starts, with no sub yet.
new_meeting(f, cur_volume) ==
    new_meeting_flagged(flags_from(f.flags, 1, "", <<>>), f, cur_volume)

new_meeting_raises(f, cur_volume) ==
    new_meeting_flagged_raises(flags_from(f.flags, 1, "", <<>>), f, cur_volume)

\* The places of the character c in s.
CharPlaces(s, c) == {i \in 1..Len(s) : Char(s, i) = c}

\* re.fullmatch(r'(.+) \(([^()]*)\)', s): the second group holds no
\* parenthesis, so it starts after the last '(' of s and ends before the
\* last character, a ')'; a space and a non-empty first group come before.
ParenMatchesAt(s, p) ==
    /\ EndsWith(s, ")")
    /\ p >= 3
    /\ ~Contains(SubSeq(s, p + 1, Len(s) - 1), ")")
    /\ Char(s, p - 1) = " "
    /\ ~Contains(SubSeq(s, 1, p - 2), "\n")

ParenMatches(s) == ParenMatchesAt(s, LastOf(CharPlaces(s, "(")))

ParenGroup1(s) == SubSeq(s, 1, Greatest(CharPlaces(s, "(")) - 2)
ParenGroup2(s) == SubSeq(s, Greatest(CharPlaces(s, "(")) + 1, Len(s) - 1)

\* re.fullmatch(r'(.*\.) ([^.]*)', s): the second group holds no stop, so
\* the first ends with the last stop of s, and a space follows it.
NameMatchesAt(s, q) ==
    /\ q >= 1
    /\ q < Len(s)
    /\ Char(s, q + 1) = " "
    /\ ~Contains(SubSeq(s, 1, q), "\n")

NameMatches(s) == NameMatchesAt(s, LastOf(CharPlaces(s, ".")))

NameGroup1(s) == SubSeq(s, 1, Greatest(CharPlaces(s, ".")))
NameGroup2(s) == Drop(s, Greatest(CharPlaces(s, ".")) + 1)

Capitals ==
    {"A", "B", "C", "D", "E", "F", "G", "H", "I", "J", "K", "L", "M",
     "N", "O", "P", "Q", "R", "S", "T", "U", "V", "W", "X", "Y", "Z"}

\* re.sub(r'([A-Z])\.(?=[A-Z])', r'\1. ', s) (lines 627-628).
\* The matches are taken left to right; the capital looked ahead at is not
\* part of the match, so the scan goes on from it.
InitialPlaces(s) ==
    {i \in 1..(Len(s) - 2) :
        Char(s, i) \in Capitals /\ Char(s, i + 1) = "." /\ Char(s, i + 2) \in Capitals}

\* space_initials_from goes on from the first match, at place i.
RECURSIVE space_initials(_)
space_initials_from(s, i) ==
    IF i = 0 THEN s
    ELSE SubSeq(s, 1, i + 1) \o " " \o space_initials(Drop(s, i + 1))

space_initials(s) == space_initials_from(s, FirstOf(InitialPlaces(s)))

\* Lines 614-621 on the pair get_title returned: the name without the role.
speaker_name_of(tn) == IF EndsWith(tn[2], ")") THEN ParenGroup1(tn[2]) ELSE tn[2]

\* Lines 614-621: the role, None without one.
speaker_role_of(tn) == IF EndsWith(tn[2], ")") THEN role_map[ParenGroup2(tn[2])] ELSE None

\* Lines 622-631 without the re.sub of lines 627-628.
speaker_named_unspaced(title, name, role) ==
    Speaker(title, NameGroup1(name), NameGroup2(name), role)

\* Lines 622-631 on the title, the name and the role.
speaker_named(title, name, role) ==
    Speaker(title, space_initials(NameGroup1(name)), NameGroup2(name), role)

speaker_titled(tn) == speaker_named(tn[1], speaker_name_of(tn), speaker_role_of(tn))

speaker_titled_raises(tn) ==
    \/ tn[1] = ""
    \/ (EndsWith(tn[2], ")")
        /\ (~ParenMatches(tn[2]) \/ ParenGroup2(tn[2]) \notin DOMAIN role_map))
    \/ ~NameMatches(speaker_name_of(tn))
    \/ Speaker_fields_raise(speaker_titled(tn))

\* Lines 608-631, for a non-empty speaker field.
speaker_from_text(speaker) ==
    speaker_titled(get_title(speaker, pers_titles_text, pers_titles_text_adj))

speaker_from_text_raises(speaker) ==
    speaker_titled_raises(get_title(speaker, pers_titles_text, pers_titles_text_adj))

\* The files <number>.title beside the ledger: the lines of each.
title_files ==
    [n \in {"7"} |-> << "\"On the Zeros of the Zeta Function and Other Matters\"\n" >>]

\* Lines 634-646: the description with a cut title replaced by the full one.
\* cur_number is the number of the current meeting, None without one.
long_title_raises(desc, cur_number) ==
    /\ EndsWith(desc, " ...\"")
    /\ \/ cur_number = None
       \/ cur_number \notin DOMAIN title_files
       \/ Len(title_files[cur_number]) # 1
       \/ ~StartsWith(Strip(title_files[cur_number][1]), SubSeq(desc, 2, Len(desc) - 5))

long_title(desc, cur_number) ==
    IF EndsWith(desc, " ...\"")
    THEN "\"" \o Strip(title_files[cur_number][1]) \o "\""
    ELSE desc

\* Lines 647-662: the description, title and note of a description column.
desc_has_note(desc) == EndsWith(desc, ")") /\ ~StartsWith(desc, "(")

desc_from_text_raises(desc) == desc_has_note(desc) /\ ~ParenMatches(desc)

\* Lines 655-662 on the description and the note lines 647-654 left.
desc_split(d, note) ==
    IF StartsWith(d, "\"") /\ EndsWith(d, "\"")
    THEN [desc |-> convert_text(None),
          title |-> convert_text(SubSeq(d, 2, Len(d) - 1)),
          note |-> convert_text(note)]
    ELSE [desc |-> convert_text(d),
          title |-> convert_text(None),
          note |-> convert_text(note)]

desc_from_text(desc) ==
    IF desc_has_note(desc)
    THEN desc_split(ParenGroup1(desc), ParenGroup2(desc))
    ELSE desc_split(desc, None)

(***************************************************************************)
(* meetings_from_text: one pass of the loop over the lines (lines 494-677).*)
(* The state of the loop is st = [cur_volume, cur_meeting, meeting_list];  *)
(* cur_meeting, in the program None or a reference to a Meeting of         *)
(* meeting_list, is 0 or the place of that Meeting in meeting_list.        *)
(***************************************************************************)
\* Lines 671-672 left out.
unpromoted(m) == m

\* Lines 671-672.
promoted(m) == IF m.type = "talk" /\ Len(m.sub) > 1 THEN [m EXCEPT !.type = "talks"] ELSE m

\* with_sub without the test of line 663: every line gives a new sub.
with_sub_always_appending(m, dt, speaker_obj, has_speaker) ==
    promoted([m EXCEPT !.sub =
                 Append(@, SubMeeting(dt.desc, dt.title, dt.note,
                                      IF has_speaker THEN <<speaker_obj>> ELSE <<>>))])

\* Lines 663-677: the current meeting with the sub or the speaker of a line
\* added.  speaker_obj is a Speaker, or None.
with_sub(m, dt, speaker_obj, has_speaker) ==
    IF Truthy(dt.desc) \/ Truthy(dt.title)
    THEN promoted([m EXCEPT !.sub =
                       Append(@, SubMeeting(dt.desc, dt.title, dt.note,
                                            IF has_speaker THEN <<speaker_obj>> ELSE <<>>))])
    ELSE [m EXCEPT !.sub[Len(m.sub)].speakers = Append(@, speaker_obj)]

\* with_sub_raises with sub[-1] of line 677 never raising.
with_sub_raises_without_last_sub(st_cur, st_list, dt, has_speaker) ==
    IF Truthy(dt.desc) \/ Truthy(dt.title)
    THEN st_cur = 0 \/ SubMeeting_raises(dt.desc, dt.title, dt.note, <<>>)
    ELSE ~has_speaker \/ st_cur = 0

with_sub_raises(st_cur, st_list, dt, has_speaker) ==
    IF Truthy(dt.desc) \/ Truthy(dt.title)
    THEN st_cur = 0 \/ SubMeeting_raises(dt.desc, dt.title, dt.note, <<>>)
    ELSE ~has_speaker \/ st_cur = 0 \/ st_list[st_cur].sub = <<>>

\* Lines 548-552: a line with neither number nor date continues the current
\* meeting.
is_continuation(f) == f.number = "" /\ f.date = ""

\* Lines 548-607: the state of the loop once the line's meeting is current.
started(st, f) ==
    IF is_continuation(f) THEN st
    ELSE [st EXCEPT !.meeting_list = Append(@, new_meeting(f, st.cur_volume)),
                    !.cur_meeting = Len(st.meeting_list) + 1]

\* started_raises without lines 551-552: a continuation line is not looked at.
started_raises_continuation_unchecked(st, f) ==
    IF is_continuation(f)
    THEN FALSE
    ELSE new_meeting_raises(f, st.cur_volume)

started_raises(st, f) ==
    IF is_continuation(f)
    THEN f.flags # "" \/ f.joint # "" \/ f.venue # "" \/ f.page # "" \/ f.attendance # ""
    ELSE new_meeting_raises(f, st.cur_volume)

\* cur_meeting.number, None where cur_meeting is None.
cur_number(st) ==
    IF st.cur_meeting = 0 THEN None ELSE st.meeting_list[st.cur_meeting].number

\* Lines 647-677 with the description lines 634-646 left.
described(st, f, desc) ==
    [st EXCEPT !.meeting_list[st.cur_meeting] =
                   with_sub(@, desc_from_text(desc),
                            IF f.speaker # "" THEN speaker_from_text(f.speaker) ELSE None,
                            f.speaker # "")]

described_raises(st, f, desc) ==
    \/ desc_from_text_raises(desc)
    \/ with_sub_raises(st.cur_meeting, st.meeting_list, desc_from_text(desc), f.speaker # "")

\* Lines 608-677 with the number of the current meeting.
sub_added(st, f, number) == described(st, f, long_title(f.desc, number))

sub_added_raises(st, f, number) ==
    \/ (f.speaker # "" /\ speaker_from_text_raises(f.speaker))
    \/ long_title_raises(f.desc, number)
    \/ described_raises(st, f, long_title(f.desc, number))

\* Lines 608-677 once the line's meeting is current.
line_added(st, f) == sub_added(st, f, cur_number(st))

line_added_raises(st, f) == sub_added_raises(st, f, cur_number(st))

\* Lines 541-677 on the columns of the line.
fields_read(st, f) == line_added(started(st, f), f)

fields_read_raise(st, f) ==
    \/ line_fields_raise(f)
    \/ started_raises(st, f)
    \/ line_added_raises(started(st, f), f)

\* Lines 518-677: a meeting line or a continuation line.
meeting_line_raises(st, line) ==
    \/ Len(LJust(line, LineWidth)) # LineWidth
    \/ fields_read_raise(st, line_fields(LJust(line, LineWidth)))

meeting_line(st, line) == fields_read(st, line_fields(LJust(line, LineWidth)))

\* Lines 495-516: TRUE when the stripped line is of a kind the loop handles
\* before the columns are looked at.
is_underline(line) == RStripChars(line, {"-"}) = ""
is_volume_line(line) == StartsWith(line, volume_hdr)
is_note_line(line) == StartsWith(line, "(")

\* Lines 510-516 on the stripped line.
note_text(line) == convert_text(SubSeq(line, 2, Len(line) - 1))

\* stripped_line_raises without the test line != '' of line 498.
stripped_line_raises_on_blank(st, line) ==
    IF is_underline(line) THEN st.cur_meeting # 0
    ELSE IF line = format_hdr THEN st.cur_meeting # 0
    ELSE IF is_volume_line(line) THEN Drop(line, Len(volume_hdr)) \notin DOMAIN volumes
    ELSE IF is_note_line(line) THEN ~EndsWith(line, ")") \/ Note_raises(note_text(line))
    ELSE meeting_line_raises(st, line)

\* Lines 495-677 on the stripped line: TRUE when the pass raises.
stripped_line_raises(st, line) ==
    IF is_underline(line) THEN line # "" /\ st.cur_meeting # 0
    ELSE IF line = format_hdr THEN st.cur_meeting # 0
    ELSE IF is_volume_line(line) THEN Drop(line, Len(volume_hdr)) \notin DOMAIN volumes
    ELSE IF is_note_line(line) THEN ~EndsWith(line, ")") \/ Note_raises(note_text(line))
    ELSE meeting_line_raises(st, line)

\* stripped_line without lines 508 and 514: a volume header and a note line
\* leave the current meeting.
stripped_line_keeping_meeting(st, line) ==
    IF is_underline(line) \/ line = format_hdr THEN st
    ELSE IF is_volume_line(line)
    THEN [st EXCEPT !.cur_volume = volumes[Drop(line, Len(volume_hdr))]]
    ELSE IF is_note_line(line)
    THEN [st EXCEPT !.meeting_list = Append(@, Note(note_text(line)))]
    ELSE meeting_line(st, line)

\* stripped_line without line 507: a volume header leaves the volume.
stripped_line_keeping_volume(st, line) ==
    IF is_underline(line) \/ line = format_hdr THEN st
    ELSE IF is_volume_line(line)
    THEN [st EXCEPT !.cur_meeting = 0]
    ELSE IF is_note_line(line)
    THEN [st EXCEPT !.cur_meeting = 0,
                    !.meeting_list = Append(@, Note(note_text(line)))]
    ELSE meeting_line(st, line)

\* Lines 495-677 on the stripped line: the state after the pass.
stripped_line(st, line) ==
    IF is_underline(line) \/ line = format_hdr THEN st
    ELSE IF is_volume_line(line)
    THEN [st EXCEPT !.cur_volume = volumes[Drop(line, Len(volume_hdr))],
                    !.cur_meeting = 0]
    ELSE IF is_note_line(line)
    THEN [st EXCEPT !.cur_meeting = 0,
                    !.meeting_list = Append(@, Note(note_text(line)))]
    ELSE meeting_line(st, line)

\* Lines 494-677: TRUE when the pass over the raw line raises.
read_line_raises(st, raw) == stripped_line_raises(st, RStrip(raw))

\* Lines 494-677: the state after the pass, when it does not raise.
read_line(st, raw) == stripped_line(st, RStrip(raw))

(***************************************************************************)
(* The program as a state machine.                                         *)
(*                                                                         *)
(* text-to-xml (action_text_to_xml): meetings_from_text reads meetings.txt *)
(* line by line (ReadLine), returns at the end of the file (EndOfFile),    *)
(* and the XML text of the list is written to meetings.xml (WriteXml).     *)
(* reformat-xml (action_reformat_xml), run afterwards: meetings.xml is     *)
(* read (ReformatRead) and written out again (ReformatWrite).  An          *)
(* exception ends the program: pc = "failed".                              *)
(***************************************************************************)
VARIABLES
    pc,             \* where the program is
    lines,          \* the lines of meetings.txt read so far
    cur_volume,     \* meetings_from_text: cur_volume
    cur_meeting,    \* meetings_from_text: cur_meeting
    meeting_list,   \* meetings_from_text: meeting_list
    mlist,          \* action_text_to_xml: mlist, once meetings_from_text returned
    meetings_xml,   \* the file meetings.xml
    reread,         \* action_reformat_xml: mlist, once meetings_from_xml returned
    meetings_new_xml, \* the file meetings-new.xml
    call,           \* the function last called on its own, with its arguments
    ret             \* what that call returned, or that it raised

vars == << pc, lines, cur_volume, cur_meeting, meeting_list, mlist, meetings_xml,
           reread, meetings_new_xml, call, ret >>

\* A local variable not assigned yet, and one holding a value.
Unbound == [bound |-> FALSE]
Bound(v) == [bound |-> TRUE, value |-> v]

\* A file that does not exist, and one holding a document.
NoFile == [exists |-> FALSE]
File(root) == [exists |-> TRUE, root |-> root]

\* The state of the loop of meetings_from_text.
loop_state == [cur_volume |-> cur_volume, cur_meeting |-> cur_meeting,
               meeting_list |-> meeting_list]

\* Lines 490-492.
loop_init == [cur_volume |-> None, cur_meeting |-> 0, meeting_list |-> <<>>]

\* A loop that catches the exception of a line and goes on to the next.
line_outcome_skipping(st, raw) ==
    IF read_line_raises(st, raw)
    THEN [pc |-> "reading", st |-> st]
    ELSE [pc |-> "reading", st |-> read_line(st, raw)]

\* Lines 494-678: what a pass of the loop leaves.  An exception is not
\* caught anywhere: it ends the loop, the function and the program.
line_outcome(st, raw) ==
    IF read_line_raises(st, raw)
    THEN [pc |-> "failed", st |-> st]
    ELSE [pc |-> "reading", st |-> read_line(st, raw)]

(***************************************************************************)
(* The lines the model's meetings.txt is made of.                          *)
(***************************************************************************)
\* A line in the columns of the format (the layout of line 837).
ledger_line(number, date, flags, joint, speaker, desc, venue, page, attendance) ==
    LJust(RJust(number, 3), 5) \o " " \o LJust(date, 10) \o " " \o LJust(flags, 3) \o " "
    \o RJust(joint, 5) \o " " \o LJust(speaker, 32) \o " " \o LJust(desc, 103) \o " "
    \o LJust(venue, 5) \o " " \o RJust(page, 3) \o " " \o attendance \o "\n"

\* The line of the minimal talk, with the code of its venue.
minimal_talk_line(venue) ==
    ledger_line("1", "2020-01-15", "", "", "Dr. A. Smith", "\"On Prime Numbers\"",
                venue, "42", "")

MinimalTalkVenues == {"Hall", "JCR", "WLT"}

HeaderLines == {"VOLUME I\n", "VOLUME II\n", "--------\n", "\n", format_hdr \o "\n"}

NoteLines == {"(Society did not meet this term)\n", "(unfinished note\n"}

MeetingLines ==
    {minimal_talk_line(v) : v \in MinimalTalkVenues}
    \cup
    { ledger_line("2", "2020-02-01", "dt", "Adams", "", "Annual Dinner (black tie)",
                  "G07", "7", "30+"),
      ledger_line("3", "", "", "", "", "Annual General Meeting", "", "---", "??"),
      ledger_line("4", "2020-03-01", "", "", "", "Reading party", "Hall", "", ""),
      ledger_line("5", "2020-03-08", "", "", "Mr. E. Fox", "", "Hall", "50", ""),
      ledger_line("", "2020-04-01", "", "", "", "Discussion of sets", "Hall", "9", ""),
      ledger_line("6", "2020-05-01", "d", "", "", "", "Hall", "", ""),
      ledger_line("7", "2020-06-01", "tbt", "", "", "Special Business Meeting", "Hall",
                  "???", ""),
      ledger_line("8", "2020-07-01", "d", "", "Mr. E. Fox", "", "Hall", "", ""),
      ledger_line("9", "2020-07-02", "", "", "", "", "Hall", "", ""),
      ledger_line("10", "2020-07-03", "", "", "Dr. A. Smith", "\"\"", "Hall", "", "") }

ContinuationLines ==
    { ledger_line("", "", "", "", "Prof. C.D. Jones", "\"Second Talk\"", "", "", ""),
      ledger_line("", "", "", "", "Mrs. G. Hill (opp)", "", "", "", ""),
      ledger_line("", "", "", "", "", "Refreshments", "", "", "12") }

LedgerLines == HeaderLines \cup NoteLines \cup MeetingLines \cup ContinuationLines

\* The most lines of meetings.txt.
MaxLines == 3

(***************************************************************************)
(* text-to-xml.                                                            *)
(***************************************************************************)
callVars == << call, ret >>
reformatVars == << reread, meetings_new_xml >>

ReadLine(raw) ==
    /\ pc = "reading"
    /\ Len(lines) < MaxLines
    /\ lines' = Append(lines, raw)
    /\ \E out \in {line_outcome(loop_state, raw)} :
           /\ pc' = out.pc
           /\ cur_volume' = out.st.cur_volume
           /\ cur_meeting' = out.st.cur_meeting
           /\ meeting_list' = out.st.meeting_list
    /\ UNCHANGED << mlist, meetings_xml, reformatVars, callVars >>

\* Line 678: return meeting_list.
EndOfFile ==
    /\ pc = "reading"
    /\ pc' = "decoded"
    /\ mlist' = Bound(meeting_list)
    /\ UNCHANGED << lines, cur_volume, cur_meeting, meeting_list, meetings_xml,
                    reformatVars, callVars >>

\* Lines 848-850.  The file is opened once the text is there.
WriteXml ==
    /\ pc = "decoded"
    /\ IF meetings_to_xml_raises(mlist.value)
       THEN pc' = "failed" /\ UNCHANGED meetings_xml
       ELSE pc' = "written" /\ meetings_xml' = File(meetings_to_xml(mlist.value))
    /\ UNCHANGED << lines, cur_volume, cur_meeting, meeting_list, mlist,
                    reformatVars, callVars >>

(***************************************************************************)
(* reformat-xml.                                                           *)
(***************************************************************************)
\* Line 855.
ReformatRead ==
    /\ pc = "written"
    /\ IF meetings_from_xml_raises(meetings_xml.root)
       THEN pc' = "failed" /\ UNCHANGED reread
       ELSE pc' = "reread" /\ reread' = Bound(meetings_from_xml(meetings_xml.root))
    /\ UNCHANGED << lines, cur_volume, cur_meeting, meeting_list, mlist, meetings_xml,
                    meetings_new_xml, callVars >>

\* Lines 856-858.
ReformatWrite ==
    /\ pc = "reread"
    /\ IF meetings_to_xml_raises(reread.value)
       THEN pc' = "failed" /\ UNCHANGED meetings_new_xml
       ELSE pc' = "rewritten" /\ meetings_new_xml' = File(meetings_to_xml(reread.value))
    /\ UNCHANGED << lines, cur_volume, cur_meeting, meeting_list, mlist, meetings_xml,
                    reread, callVars >>

NoCall == [fn |-> "none"]
NoReturn == [raised |-> FALSE]

Init ==
    /\ pc = "reading"
    /\ lines = <<>>
    /\ cur_volume = loop_init.cur_volume
    /\ cur_meeting = loop_init.cur_meeting
    /\ meeting_list = loop_init.meeting_list
    /\ mlist = Unbound
    /\ meetings_xml = NoFile
    /\ reread = Unbound
    /\ meetings_new_xml = NoFile
    /\ call = NoCall
    /\ ret = NoReturn

Next ==
    \/ \E raw \in LedgerLines : ReadLine(raw)
    \/ EndOfFile
    \/ WriteXml
    \/ ReformatRead
    \/ ReformatWrite

Spec == Init /\ [][Next]_vars

(***************************************************************************)
(* reformat-xml run on the canonical document of an archive the            *)
(* constructors built: the archive is encoded (WriteXml), then read back   *)
(* (ReformatRead) and encoded again (ReformatWrite).                       *)
(***************************************************************************)
\* The most SubMeetings of a Meeting drawn.
MaxSubs == 2

\* The most entries of an archive of several entries.
MaxEntries == 2

\* The sequences over S of at most n elements.
SeqsUpTo(S, n) == UNION {[1..k -> S] : k \in 0..n}

\* The arguments Speaker is called with.
SpeakerInputs ==
    { [title |-> "Dr", first |-> "A.", last |-> "Smith", role |-> None],
      [title |-> "Prof. Sir", first |-> "C. D.", last |-> "O'Neil & <Sons>",
       role |-> "opponent"],
      [title |-> "", first |-> "E.", last |-> "Fox", role |-> ""],
      [title |-> "Mrs", first |-> "", last |-> "Hill", role |-> "author"],
      [title |-> "Dr ", first |-> "I.", last |-> "Kay", role |-> None],
      [title |-> "Mr", first |-> "L.", last |-> "Moss", role |-> "chair"] }

\* The Speakers whose constructor succeeded.
Speakers ==
    {Speaker(a.title, a.first, a.last, a.role) :
        a \in {b \in SpeakerInputs : ~Speaker_fields_raise(b)}}

DrSmith == Speaker("Dr", "A.", "Smith", None)
SirONeil == Speaker("Prof. Sir", "C. D.", "O'Neil & <Sons>", "opponent")
Fox == Speaker("", "E.", "Fox", "")
MrsHill == Speaker("Mrs", "", "Hill", "author")

\* The arguments SubMeeting is called with.
SubMeetingInputs ==
    { [desc |-> None, title |-> "On Prime Numbers", note |-> None, speakers |-> <<DrSmith>>],
      [desc |-> "Tea & <cake>", title |-> None, note |-> "black tie", speakers |-> <<>>],
      [desc |-> "", title |-> "Second Talk", note |-> "",
       speakers |-> <<DrSmith, SirONeil>>],
      [desc |-> "Refreshments", title |-> "", note |-> None, speakers |-> <<Fox>>],
      [desc |-> "Walk\rTalk", title |-> None, note |-> None, speakers |-> <<>>],
      [desc |-> None, title |-> None, note |-> None, speakers |-> <<MrsHill>>],
      [desc |-> "Tea", title |-> "Cake", note |-> None, speakers |-> <<>>],
      [desc |-> "It's tea", title |-> None, note |-> None, speakers |-> <<>>] }

\* The SubMeetings whose constructor succeeded.
SubMeetings ==
    {SubMeeting(a.desc, a.title, a.note, a.speakers) :
        a \in {b \in SubMeetingInputs :
                  /\ \A i \in 1..Len(b.speakers) : b.speakers[i] \in Speakers
                  /\ ~SubMeeting_raises(b.desc, b.title, b.note, b.speakers)}}

\* The other arguments Meeting is called with.
MeetingProfiles ==
    { [number |-> "1", date |-> "2020-01-15", flags |-> <<>>, joint |-> <<>>,
       venue |-> "Hall", attendance |-> "", volume |-> "1", page |-> "42"],
      [number |-> "", date |-> "", flags |-> <<"televised", "non-election business">>,
       joint |-> <<"Adams Society", "Magpie and Stump">>, venue |-> "07 Great Court",
       attendance |-> "30+", volume |-> "12", page |-> "-"],
      [number |-> "3a", date |-> "1921-1?-??", flags |-> <<"televised", "televised">>,
       joint |-> <<>>, venue |-> "", attendance |-> "?", volume |-> "", page |-> "?"],
      [number |-> "4", date |-> "2020-1-15", flags |-> <<>>, joint |-> <<>>,
       venue |-> "Hall", attendance |-> "", volume |-> "1", page |-> "42"] }

MeetingTypeInputs == {"talk", "talks", "dinner"}

\* The Meetings of a profile whose constructor succeeded.
MeetingsOf(profiles, types, subs) ==
    {Meeting(a.number, a.date, a.type, a.flags, a.joint, a.sub, a.venue, a.attendance,
             a.volume, a.page) :
        a \in {b \in {[number |-> p.number, date |-> p.date, type |-> t, flags |-> p.flags,
                       joint |-> p.joint, sub |-> sub, venue |-> p.venue,
                       attendance |-> p.attendance, volume |-> p.volume,
                       page |-> p.page] : p \in profiles, t \in types, sub \in subs} :
                  ~Meeting_fields_raise(b)}}

Meetings == MeetingsOf(MeetingProfiles, MeetingTypeInputs, SeqsUpTo(SubMeetings, MaxSubs))

\* The Notes whose constructor succeeded.
Notes ==
    {Note(t) : t \in {u \in {"Society did not meet this term", "Fish & <chips>", "", None,
                             "Fish 'n' chips"} : ~Note_raises(u)}}

\* The entries the archives of several entries are made of.
PlainEntries ==
    {Note("Society did not meet this term")}
    \cup MeetingsOf({p \in MeetingProfiles : p.number = "1"}, {"talk", "dinner"},
                    {<<>>, <<SubMeeting(None, "On Prime Numbers", None, <<DrSmith>>)>>})

Archives ==
    {<<e>> : e \in Meetings \cup Notes} \cup SeqsUpTo(PlainEntries, MaxEntries)

\* The archive is bound to mlist as if meetings_from_text had returned it.
InitXml ==
    /\ pc = "decoded"
    /\ lines = <<>>
    /\ cur_volume = loop_init.cur_volume
    /\ cur_meeting = loop_init.cur_meeting
    /\ meeting_list = loop_init.meeting_list
    /\ mlist \in {Bound(A) : A \in Archives}
    /\ meetings_xml = NoFile
    /\ reread = Unbound
    /\ meetings_new_xml = NoFile
    /\ call = NoCall
    /\ ret = NoReturn

NextXml ==
    \/ WriteXml
    \/ ReformatRead
    \/ ReformatWrite

SpecXml == InitXml /\ [][NextXml]_vars

(***************************************************************************)
(* Both decoders: the program run on a ledger (Init), or reformat-xml run  *)
(* on the document of an archive the constructors built (InitXml).         *)
(***************************************************************************)
InitDecoders == Init \/ InitXml

SpecDecoders == InitDecoders /\ [][Next]_vars

(***************************************************************************)
(* The constructors and functions called on their own: one call (pc goes   *)
(* from "idle" to "returned"), with what it returned or that it raised.    *)
(* The venue of a line is decoded as meetings_from_text does and the       *)
(* venue decoded is then encoded as meetings_to_text does ("encoded").     *)
(***************************************************************************)
Raised == [raised |-> TRUE]
Returned(v) == [raised |-> FALSE, value |-> v]

\* The elements of a tuple.
Range(t) == {t[i] : i \in 1..Len(t)}

TitleInputs == {"Dr", "", "Prof. Sir", "Dr ", "Sir Prof.", "Dr.", None}
RoleInputs == Range(roles) \cup {None, "", "chair", "Proponent"}

CallSpeaker(title, first, last, role) ==
    /\ pc = "idle"
    /\ pc' = "returned"
    /\ call' = [fn |-> "Speaker", title |-> title, first |-> first, last |-> last,
                role |-> role]
    /\ ret' = IF Speaker_raises(title, first, last, role) THEN Raised
              ELSE Returned(Speaker(title, first, last, role))
    /\ UNCHANGED << lines, cur_volume, cur_meeting, meeting_list, mlist, meetings_xml,
                    reformatVars >>

DescInputs == {None, "", "Tea", "On Primes", "It's tea", "pages 1-2"}
NoteInputs == {None, "", "black tie", "room 5-"}

CallSubMeeting(desc, title, note, speakers) ==
    /\ pc = "idle"
    /\ pc' = "returned"
    /\ call' = [fn |-> "SubMeeting", desc |-> desc, title |-> title, note |-> note,
                speakers |-> speakers]
    /\ ret' = IF SubMeeting_raises(desc, title, note, speakers) THEN Raised
              ELSE Returned(SubMeeting(desc, title, note, speakers))
    /\ UNCHANGED << lines, cur_volume, cur_meeting, meeting_list, mlist, meetings_xml,
                    reformatVars >>

TypeInputs == Range(meeting_types) \cup {"lecture", "", "Talk"}
FlagsInputs ==
    {<<>>, <<"secret">>, <<"televised", "secret">>, <<"televised", "election of officers">>}
    \cup {<<f>> : f \in Range(meeting_flags)}
JointInputs ==
    {<<>>, <<"Glee Club">>, <<"Adams Society", "Glee Club">>}
    \cup {<<j>> : j \in Range(joint_societies)}
VenueInputs ==
    Range(venues)
    \cup {"07 Blue Boar Court", "Room 5, 4A Bridge Street", "B Bishop" \o rsquo \o "s Hostel",
          "07 Great Court", " Great Court", "K Whewell" \o rsquo \o "s Court", "1 New Court",
          "Lecture Room 2 (I Great Court)", "Centre for Mathematical Sciences MR2",
          "Centre for Mathematical Sciences MR", "3 Nevile" \o rsquo \o "s Court"}
    \cup {"The Moon", "Great Court", "hall", "07\n Great Court", "Room 5 4A Bridge Street"}
RestInputs ==
    { [number |-> "1", date |-> "2020-01-15", attendance |-> "", volume |-> "1",
       page |-> "42"],
      [number |-> "", date |-> "", attendance |-> "30+", volume |-> None, page |-> "-"],
      [number |-> "2", date |-> "2020-1-15", attendance |-> "?", volume |-> "1",
       page |-> "?"],
      [number |-> "3", date |-> "2020-01-15", attendance |-> "many", volume |-> "1",
       page |-> "7"],
      [number |-> "4", date |-> "2020-01-15", attendance |-> "", volume |-> "1",
       page |-> ""] }

\* The arguments of Meeting with each column drawn from a set.
MeetingArgs(types, flagss, joints, venuess, rests) ==
    {[type |-> t, flags |-> fl, joint |-> j, venue |-> v, rest |-> r] :
        t \in types, fl \in flagss, j \in joints, v \in venuess, r \in rests}

\* Each argument runs over all its inputs while the others run over a few.
MeetingInputs ==
    MeetingArgs(TypeInputs, {<<>>, <<"secret">>}, {<<>>, <<"Glee Club">>},
                {"Hall", "The Moon"}, RestInputs)
    \cup MeetingArgs({"talk", "lecture"}, FlagsInputs, JointInputs, {"Hall", "The Moon"},
                     RestInputs)
    \cup MeetingArgs({"talk", "lecture"}, {<<>>, <<"secret">>}, {<<>>, <<"Glee Club">>},
                     VenueInputs, RestInputs)

CallMeeting(a) ==
    /\ pc = "idle"
    /\ pc' = "returned"
    /\ call' = [fn |-> "Meeting", number |-> a.rest.number, date |-> a.rest.date,
                type |-> a.type, flags |-> a.flags, joint |-> a.joint, sub |-> <<>>,
                venue |-> a.venue, attendance |-> a.rest.attendance,
                volume |-> a.rest.volume, page |-> a.rest.page]
    /\ ret' = IF Meeting_raises(a.rest.number, a.rest.date, a.type, a.flags, a.joint, <<>>,
                                a.venue, a.rest.attendance, a.rest.volume, a.rest.page)
              THEN Raised
              ELSE Returned(Meeting(a.rest.number, a.rest.date, a.type, a.flags, a.joint,
                                    <<>>, a.venue, a.rest.attendance, a.rest.volume,
                                    a.rest.page))
    /\ UNCHANGED << lines, cur_volume, cur_meeting, meeting_list, mlist, meetings_xml,
                    reformatVars >>

\* The longest text check_unicode is called with.
MaxTextLen == 4

TextAlphabet == {"a", "7", "-", " ", ".", "'", "\""}

\* The texts over an alphabet of at most n characters.
RECURSIVE TextsUpTo(_, _)
TextsUpTo(alphabet, n) ==
    IF n = 0 THEN {""}
    ELSE TextsUpTo(alphabet, n - 1)
         \cup {t \o c : t \in TextsUpTo(alphabet, n - 1), c \in alphabet}

TextInputs == TextsUpTo(TextAlphabet, MaxTextLen) \cup {None}

\* check_unicode returns None.
CallCheckUnicode(text) ==
    /\ pc = "idle"
    /\ pc' = "returned"
    /\ call' = [fn |-> "check_unicode", text |-> text]
    /\ ret' = IF check_unicode(text) THEN Raised ELSE Returned(None)
    /\ UNCHANGED << lines, cur_volume, cur_meeting, meeting_list, mlist, meetings_xml,
                    reformatVars >>

SpeakerFields ==
    {"Dr. A.B. Smith", "Dr. A. Smith", "Prof. Sir C.D. O'Neil (opp)", "A. Smith",
     "Mrs. G. Hill (prop)", "Mr. E. Fox (chair)", "Dr. Smith", "Prof. J.-P. Serre",
     "Rev. Dr. A.B.C. Jones (author)", "Dr. A.B. Smith (producer", "Miss A.BC. Day",
     "Sir Prof. X.Y. Zed", "Ms. St. John-Brown", "Dr. A.B. Smith ()"}

\* Lines 608-631 on the speaker column of a line.
DecodeSpeaker(field) ==
    /\ pc = "idle"
    /\ pc' = "returned"
    /\ call' = [fn |-> "speaker", field |-> field]
    /\ ret' = IF speaker_from_text_raises(field) THEN Raised
              ELSE Returned(speaker_from_text(field))
    /\ UNCHANGED << lines, cur_volume, cur_meeting, meeting_list, mlist, meetings_xml,
                    reformatVars >>

VenueSuffixes == {"", "07", "Q1", "1", "s", "2 3", "B1"}

VenueCodes ==
    {venue_map[i][1] : i \in 1..Len(venue_map)}
    \cup {venue_map_suffix[i][1] \o x : i \in 1..Len(venue_map_suffix), x \in VenueSuffixes}
    \cup {"", "XYZ", "hall", "Q1", "07G"}

VenueDates == {"1979-04-23", "2020-01-15", ""}

\* Lines 581-597, and the check of the venue by Meeting (line 604).
DecodeVenue(code, date) ==
    /\ pc = "idle"
    /\ pc' = "returned"
    /\ call' = [fn |-> "venue", code |-> code, date |-> date]
    /\ ret' = IF venue_column_raises(code, date) THEN Raised
              ELSE IF ~venue_ok(venue_column(code, date)) THEN Raised
              ELSE Returned(venue_column(code, date))
    /\ UNCHANGED << lines, cur_volume, cur_meeting, meeting_list, mlist, meetings_xml,
                    reformatVars >>

\* Lines 800-822 on the venue decoded.
EncodeVenue ==
    /\ pc = "returned"
    /\ call.fn = "venue"
    /\ ~ret.raised
    /\ pc' = "encoded"
    /\ call' = [fn |-> "venue_text", venue |-> ret.value, code |-> call.code,
                date |-> call.date]
    /\ ret' = IF venue_text_raises(ret.value) THEN Raised
              ELSE Returned(venue_text(ret.value))
    /\ UNCHANGED << lines, cur_volume, cur_meeting, meeting_list, mlist, meetings_xml,
                    reformatVars >>

\* The most pieces of a text convert_text is called with.
MaxPieces == 3

\* The pieces of the ASCII texts of the ledger that convert_text changes, and
\* some it leaves alone.
TextPieces == {"'", "...", ".", "\\pi", "\\Delta", " - ", " ", "-", "\"", "7", "a"}

\* The texts of at most n pieces.
RECURSIVE PiecesUpTo(_)
PiecesUpTo(n) ==
    IF n = 0 THEN {""}
    ELSE PiecesUpTo(n - 1) \cup {t \o c : t \in PiecesUpTo(n - 1), c \in TextPieces}

LedgerTexts ==
    PiecesUpTo(MaxPieces)
    \cup {"1-2-3", "7-7-7-", "\"a\" \"7-\"", "\"Don't...\" - 7-", "2 - 3-4 \\pi-\\Delta"}

\* convert_text (lines 329-344) on a text of the ledger.
CallConvertText(text) ==
    /\ pc = "idle"
    /\ pc' = "returned"
    /\ call' = [fn |-> "convert_text", text |-> text]
    /\ ret' = Returned(convert_text(text))
    /\ UNCHANGED << lines, cur_volume, cur_meeting, meeting_list, mlist, meetings_xml,
                    reformatVars >>

\* unconvert_text (lines 347-360) on the text converted.
UnconvertText ==
    /\ pc = "returned"
    /\ call.fn = "convert_text"
    /\ pc' = "unconverted"
    /\ call' = [fn |-> "unconvert_text", text |-> call.text, converted |-> ret.value]
    /\ ret' = Returned(unconvert_text(ret.value))
    /\ UNCHANGED << lines, cur_volume, cur_meeting, meeting_list, mlist, meetings_xml,
                    reformatVars >>

\* Line 516 on the text converted: Note(convert_text(line)), whose
\* constructor calls check_unicode on it (line 317).
NoteOfConverted ==
    /\ pc = "returned"
    /\ call.fn = "convert_text"
    /\ pc' = "constructed"
    /\ call' = [fn |-> "Note", text |-> call.text, converted |-> ret.value]
    /\ ret' = IF Note_raises(ret.value) THEN Raised ELSE Returned(Note(ret.value))
    /\ UNCHANGED << lines, cur_volume, cur_meeting, meeting_list, mlist, meetings_xml,
                    reformatVars >>

\* Two type letters, two flag letters and a letter that is neither.
FlagLetters == {"d", "c", "b", "t", "x"}

\* The flags column has three places (line 525).
FlagsColumns == TextsUpTo(FlagLetters, 3)

SpeakerColumns == {"", "Dr. A. Smith"}

DescColumns ==
    {"", "(no speaker present)", "(unminuted)", "Annual General Meeting",
     "Special Business Meeting", "General Meeting and Business Meeting",
     "Business Meeting before the General Meeting", "Discussion of the General Meeting",
     "Discussion of a Business Meeting", "Discussion of sets", "A Discussion",
     "Reading party", "general meeting"}

\* Lines 556-580 on the flags, speaker and description columns of a
\* new-meeting line: the type of the meeting.
DetermineType(flags, speaker, desc) ==
    /\ pc = "idle"
    /\ pc' = "returned"
    /\ call' = [fn |-> "type", flags |-> flags, speaker |-> speaker, desc |-> desc]
    /\ \E fl \in {flags_from(flags, 1, "", <<>>)} :
          \E type \in {type_of_line(fl, [speaker |-> speaker, desc |-> desc])} :
              ret' = IF fl.bad \/ type = "" THEN Raised ELSE Returned(type)
    /\ UNCHANGED << lines, cur_volume, cur_meeting, meeting_list, mlist, meetings_xml,
                    reformatVars >>

InitCalls ==
    /\ pc = "idle"
    /\ lines = <<>>
    /\ cur_volume = loop_init.cur_volume
    /\ cur_meeting = loop_init.cur_meeting
    /\ meeting_list = loop_init.meeting_list
    /\ mlist = Unbound
    /\ meetings_xml = NoFile
    /\ reread = Unbound
    /\ meetings_new_xml = NoFile
    /\ call = NoCall
    /\ ret = NoReturn

NextCalls ==
    \/ \E title \in TitleInputs, role \in RoleInputs : CallSpeaker(title, "A.", "Smith", role)
    \/ \E desc \in DescInputs, title \in DescInputs, note \in NoteInputs,
          speakers \in {<<>>, <<DrSmith>>} : CallSubMeeting(desc, title, note, speakers)
    \/ \E a \in MeetingInputs : CallMeeting(a)
    \/ \E text \in TextInputs : CallCheckUnicode(text)
    \/ \E field \in SpeakerFields : DecodeSpeaker(field)
    \/ \E code \in VenueCodes, date \in VenueDates : DecodeVenue(code, date)
    \/ EncodeVenue
    \/ \E text \in LedgerTexts : CallConvertText(text)
    \/ UnconvertText
    \/ NoteOfConverted
    \/ \E flags \in FlagsColumns, speaker \in SpeakerColumns, desc \in DescColumns :
          DetermineType(flags, speaker, desc)

SpecCalls == InitCalls /\ [][NextCalls]_vars

(***************************************************************************)
(* Properties of the structured codec (SpecXml).                           *)
(***************************************************************************)
\* A text the XML file carries unchanged: the parser turns a carriage
\* return into a line feed.
Carried(t) == t = None \/ ~Contains(t, "\r")

\* A text that is set, and carried unchanged.
CarriedSet(t) == Truthy(t) /\ Carried(t)

SpeakerCarried(sp) ==
    CarriedSet(sp.title) /\ CarriedSet(sp.first) /\ CarriedSet(sp.last) /\ Carried(sp.role)

SubMeetingCarried(sub) ==
    /\ Carried(sub.desc) /\ Carried(sub.title) /\ Carried(sub.note)
    /\ \A i \in 1..Len(sub.speakers) : SpeakerCarried(sub.speakers[i])

\* An entry meetings_from_xml takes back: the texts are carried, the title,
\* first and last name of a speaker, the volume and the text of a Note are
\* set, and the number of subs fits a type of talk or talks.
EntryCarried(e) ==
    IF e.class = "Note" THEN CarriedSet(e.text)
    ELSE /\ e.number # None /\ Carried(e.number)
         /\ Carried(e.venue)
         /\ CarriedSet(e.volume)
         /\ (e.type = "talk" => Len(e.sub) = 1)
         /\ (e.type = "talks" => Len(e.sub) > 1)
         /\ \A i \in 1..Len(e.sub) : SubMeetingCarried(e.sub[i])

ArchiveCarried(A) == \A i \in 1..Len(A) : EntryCarried(A[i])

\* An entry with '' for every desc, title, note and role that is not set.
EmptyForNone(t) == IF t = None THEN "" ELSE t

SpeakerUnsetEmpty(sp) == [sp EXCEPT !.role = EmptyForNone(@)]

SubMeetingUnsetEmpty(sub) ==
    [desc |-> EmptyForNone(sub.desc), title |-> EmptyForNone(sub.title),
     note |-> EmptyForNone(sub.note),
     speakers |-> [i \in 1..Len(sub.speakers) |-> SpeakerUnsetEmpty(sub.speakers[i])]]

EntryUnsetEmpty(e) ==
    IF e.class = "Note" THEN e
    ELSE [e EXCEPT !.sub = [i \in 1..Len(e.sub) |-> SubMeetingUnsetEmpty(e.sub[i])]]

ArchiveUnsetEmpty(A) == [i \in 1..Len(A) |-> EntryUnsetEmpty(A[i])]

\* C1, as amended.  For every archive the constructors built in which the
\* texts hold no carriage return, every speaker's title, first and last
\* name, every meeting's volume and every Note's text is set, every talk
\* has exactly one sub and every talks more than one: meetings_to_xml and
\* then meetings_from_xml succeed, and the archive returned equals the
\* archive encoded entry by entry and field by field, a desc, title, note
\* or role that was not set (None or '') being returned as ''.
C1_RoundTripIdentity ==
    (mlist.bound /\ ArchiveCarried(mlist.value)) =>
        /\ (pc = "failed" => reread.bound)
        /\ (reread.bound => reread.value = ArchiveUnsetEmpty(mlist.value))

\* An archive of C1's kind came back: a meeting with a sub whose desc was
\* None and whose speaker had no role.
C1_Witness ==
    /\ reread.bound
    /\ ArchiveCarried(mlist.value)
    /\ \E i \in 1..Len(mlist.value) :
          /\ mlist.value[i].class = "Meeting"
          /\ \E j \in 1..Len(mlist.value[i].sub) :
                /\ mlist.value[i].sub[j].desc = None
                /\ reread.value[i].sub[j].desc = ""
                /\ \E k \in 1..Len(mlist.value[i].sub[j].speakers) :
                      /\ mlist.value[i].sub[j].speakers[k].role = None
                      /\ reread.value[i].sub[j].speakers[k].role = ""

\* C1 as stated: for every archive the constructors built, decoding the
\* document written succeeds and returns an equal archive (a field not set
\* counting as equal to a field not set).
C1_AsStated ==
    (mlist.bound /\ meetings_xml.exists) =>
        /\ (pc = "failed" => reread.bound)
        /\ (reread.bound => ArchiveUnsetEmpty(reread.value) = ArchiveUnsetEmpty(mlist.value))

\* C2, as amended.  For every archive of the kind of C1, encoding, decoding
\* and encoding again succeeds and the second document is the first.
C2_IdempotentReencoding ==
    (mlist.bound /\ ArchiveCarried(mlist.value)) =>
        /\ pc # "failed"
        /\ (meetings_new_xml.exists => meetings_new_xml = meetings_xml)

\* A document of two entries with characters that are escaped was written
\* twice.
C2_Witness ==
    /\ pc = "rewritten"
    /\ ArchiveCarried(mlist.value)
    /\ \E i \in 1..Len(mlist.value) :
          /\ mlist.value[i].class = "Meeting"
          /\ \E j \in 1..Len(mlist.value[i].sub) :
                /\ mlist.value[i].sub[j].desc = "Tea & <cake>"
                /\ mlist.value[i].joint # <<>>

\* C2 as stated: for every archive the constructors built and
\* meetings_to_xml encodes, decoding and encoding again gives the same
\* document.
C2_AsStated ==
    (mlist.bound /\ meetings_xml.exists) =>
        /\ pc # "failed"
        /\ (meetings_new_xml.exists => meetings_new_xml = meetings_xml)

(***************************************************************************)
(* Properties of the constructors and functions (SpecCalls).               *)
(***************************************************************************)
\* The venue is in the list of venues or fully matches a pattern of
\* venues_re.
VenueInVocabulary(venue) ==
    \/ venue \in Range(venues)
    \/ \E pat \in Range(venues_re) : FullMatchAround(pat[1], pat[2], venue)

\* The arguments of the call of Meeting that have no closed set are valid.
RestValid(c) ==
    /\ c.date = "" \/ DateMatches(c.date)
    /\ c.attendance \in {"", "?"} \/ AttendanceMatches(c.attendance)
    /\ c.page \in {"-", "?"} \/ NumberMatches(c.page)

MeetingInVocabulary(c) ==
    /\ c.type \in Range(meeting_types)
    /\ Range(c.flags) \subseteq Range(meeting_flags)
    /\ Range(c.joint) \subseteq Range(joint_societies)
    /\ VenueInVocabulary(c.venue)

\* C3.  Meeting raises when its type, a flag, a joint society or its venue
\* is outside the closed set, and returns a Meeting when all are inside and
\* the other arguments are valid; Speaker raises when a role is given that
\* is outside the roles, and returns a Speaker for each role of the roles
\* (and for no role) when the title is valid.
C3_EnumerationClosure ==
    /\ (pc = "returned" /\ call.fn = "Meeting") =>
          /\ (~MeetingInVocabulary(call) => ret.raised)
          /\ (MeetingInVocabulary(call) /\ RestValid(call) => ~ret.raised)
    /\ (pc = "returned" /\ call.fn = "Speaker") =>
          /\ (Truthy(call.role) /\ call.role \notin Range(roles) => ret.raised)
          /\ ((call.role \in Range(roles) \cup {None, ""})
              /\ call.title \in {"Dr", "", "Prof. Sir"} => ~ret.raised)

\* Meeting raised on a venue outside the venues, everything else valid.
C3_Witness ==
    /\ pc = "returned"
    /\ call.fn = "Meeting"
    /\ call.venue = "The Moon"
    /\ call.type \in Range(meeting_types)
    /\ Range(call.flags) \subseteq Range(meeting_flags)
    /\ call.joint = <<"Adams Society">>
    /\ RestValid(call)
    /\ ret.raised

\* C4.  SubMeeting raises, and returns no SubMeeting, whenever desc and
\* title are both non-empty, whatever the note and the speakers.
C4_MutualExclusion ==
    (pc = "returned" /\ call.fn = "SubMeeting" /\ Truthy(call.desc) /\ Truthy(call.title))
        => ret = Raised

\* SubMeeting raised on a desc and a title that each pass on their own.
C4_Witness ==
    /\ pc = "returned"
    /\ call.fn = "SubMeeting"
    /\ call.desc = "Tea"
    /\ call.title = "On Primes"
    /\ call.note = "black tie"
    /\ call.speakers # <<>>
    /\ ret.raised

\* The five patterns C5 names.
HasNamedPattern(text) ==
    \/ \E i \in 1..Len(text) : Char(text, i) = "\""
    \/ \E i \in 1..Len(text) : Char(text, i) = "'"
    \/ \E i \in 1..(Len(text) - 2) : SubSeq(text, i, i + 2) = "..."
    \/ \E i \in 1..(Len(text) - 1) : SubSeq(text, i, i + 1) = " -"
    \/ \E i \in 1..(Len(text) - 2) :
          /\ Char(text, i) \in Digits
          /\ Char(text, i + 1) = "-"
          /\ Char(text, i + 2) \in Digits

\* A digit and a hyphen end the text.
EndsDigitHyphen(text) ==
    Len(text) >= 2 /\ Char(text, Len(text) - 1) \in Digits /\ Char(text, Len(text)) = "-"

\* C5, as amended.  check_unicode raises on every text that holds a double
\* quote, a single quote, '...', a space followed by a hyphen, a
\* digit-hyphen-digit, or that ends with a digit followed by a hyphen; it
\* returns on every other text, and on None.
C5_AsciiGuard ==
    (pc = "returned" /\ call.fn = "check_unicode") =>
        (ret.raised <=>
            (call.text # None /\ (HasNamedPattern(call.text) \/ EndsDigitHyphen(call.text))))

\* check_unicode raised on a text whose only pattern is the final
\* digit-hyphen.
C5_Witness ==
    /\ pc = "returned"
    /\ call.fn = "check_unicode"
    /\ call.text = "a7-"
    /\ ret.raised

\* C5 as stated: check_unicode raises on the five patterns and returns on
\* every other input.
C5_AsStated ==
    (pc = "returned" /\ call.fn = "check_unicode") =>
        (ret.raised <=> (call.text # None /\ HasNamedPattern(call.text)))

\* C6, as amended.  The speaker decoded depends on the speaker column alone
\* (ret is a function of call.field), and "Dr. A.B. Smith" decodes to the
\* title "Dr", the first name "A. B.", the last name "Smith" and no role.
C6_SpeakerDecoding ==
    (pc = "returned" /\ call.fn = "speaker" /\ call.field = "Dr. A.B. Smith") =>
        ret = Returned([title |-> "Dr", first |-> "A. B.", last |-> "Smith", role |-> None])

\* The column "Dr. A.B. Smith" was decoded.
C6_Witness ==
    /\ pc = "returned"
    /\ call.fn = "speaker"
    /\ call.field = "Dr. A.B. Smith"
    /\ ~ret.raised
    /\ ret.value.first = "A. B."

\* C6 as stated: the title decoded is "Dr " with its space.
C6_AsStated ==
    (pc = "returned" /\ call.fn = "speaker" /\ call.field = "Dr. A.B. Smith") =>
        ret = Returned([title |-> "Dr ", first |-> "A. B.", last |-> "Smith", role |-> None])

\* C8.  For every venue code the decoder accepts, the venue decoded is
\* encoded by meetings_to_text to the same code.
C8_VenueRoundTrip ==
    pc = "encoded" => ret = Returned(call.code)

\* A code of a template, the code of the rewrite of 1979 and the code of
\* the Lecture Rooms each came back.
C8_Witness ==
    /\ pc = "encoded"
    /\ \/ call.code = "G07" /\ call.venue = "07 Great Court"
       \/ call.code = "GQ1" /\ call.venue = venue_bar
       \/ call.code = "LR" /\ call.venue = "Lecture Rooms (I Great Court)"
    /\ ret = Returned(call.code)

(***************************************************************************)
(* Properties of text-to-xml and reformat-xml on a ledger (Spec).          *)
(***************************************************************************)
\* The Meeting of the minimal talk.
IsMinimalTalk(m, venue) ==
    /\ m.class = "Meeting"
    /\ m.number = "1" /\ m.date = "2020-01-15" /\ m.page = "42"
    /\ m.type = "talk"
    /\ m.flags = <<>>
    /\ m.venue = venue
    /\ Len(m.sub) = 1
    /\ m.sub[1].title = "On Prime Numbers"
    /\ ~Truthy(m.sub[1].desc)
    /\ Len(m.sub[1].speakers) = 1

\* What C7 says of the ledger ls, made of the minimal talk line.
MinimalTalkDecoded(ls(_)) ==
    \A i \in 1..Len(venue_map) :
        (venue_map[i][1] \in MinimalTalkVenues /\ lines = ls(venue_map[i][1])) =>
            /\ pc # "failed"
            /\ Len(meeting_list) = 1
            /\ IsMinimalTalk(meeting_list[1], venue_map[i][2])
            /\ (reread.bound =>
                    ArchiveUnsetEmpty(reread.value) = ArchiveUnsetEmpty(mlist.value))
            /\ (meetings_new_xml.exists => meetings_new_xml = meetings_xml)

VolumeThenMinimalTalk(venue) == <<"VOLUME I\n", minimal_talk_line(venue)>>
OnlyMinimalTalk(venue) == <<minimal_talk_line(venue)>>

\* C7, as amended.  The line of the minimal talk, read after the header
\* line of a volume, decodes to exactly one Meeting of type talk with
\* exactly one SubMeeting, whose title is the description without its
\* quotes, whose desc is not set and which has exactly one Speaker; that
\* archive is encoded by meetings_to_xml, decoded by meetings_from_xml to
\* the same tree, and encoded again to the same document.
C7_MinimalTalk == MinimalTalkDecoded(VolumeThenMinimalTalk)

\* The ledger of C7 went through text-to-xml and reformat-xml.
C7_Witness ==
    /\ pc = "rewritten"
    /\ lines = VolumeThenMinimalTalk("JCR")
    /\ IsMinimalTalk(reread.value[1], "Junior Combination Room")

\* C7 as stated: the ledger is the single line.
C7_AsStated == MinimalTalkDecoded(OnlyMinimalTalk)

\* C9.  In every step of the loop, a Meeting of type talk with one sub that
\* gets a second has the type talks after the step, and a Meeting of type
\* talks keeps it.
C9_TalkReclassification ==
    [][\A i \in 1..Len(meeting_list) :
          meeting_list[i].class = "Meeting" =>
              /\ (/\ meeting_list[i].type = "talk"
                  /\ Len(meeting_list[i].sub) = 1
                  /\ Len(meeting_list'[i].sub) = 2) => meeting_list'[i].type = "talks"
              /\ meeting_list[i].type = "talks" => meeting_list'[i].type = "talks"]_vars

\* A meeting that started as a talk got a second and then a third sub.
C9_Witness ==
    /\ Len(lines) = 3
    /\ lines[1] \in {minimal_talk_line(v) : v \in MinimalTalkVenues}
    /\ Len(meeting_list) = 1
    /\ meeting_list[1].type = "talks"
    /\ Len(meeting_list[1].sub) = 3

\* The place of the first line of ls, from the k-th on, that the loop
\* raises on in the state st; 0 when there is none.
RECURSIVE first_invalid_from(_, _, _)
first_invalid_from(ls, k, st) ==
    IF k > Len(ls) THEN 0
    ELSE IF read_line_raises(st, ls[k]) THEN k
    ELSE first_invalid_from(ls, k + 1, read_line(st, ls[k]))

FirstInvalid(ls) == first_invalid_from(ls, 1, loop_init)

\* C10.  When a line of the ledger is invalid, the first such line is the
\* last line read, the program has failed, meetings_from_text returned no
\* archive and meetings.xml is not written; meetings.xml holds a document
\* only when every line was read without an error, and then it is the
\* document of the whole archive.
C10_FailFast ==
    /\ FirstInvalid(lines) # 0 =>
          /\ FirstInvalid(lines) = Len(lines)
          /\ pc = "failed"
          /\ ~mlist.bound
          /\ ~meetings_xml.exists
    /\ mlist.bound => mlist.value = meeting_list
    /\ meetings_xml.exists =>
          /\ mlist.bound
          /\ FirstInvalid(lines) = 0
          /\ meetings_xml.root = meetings_to_xml(mlist.value)

\* The third line was invalid after two lines had given a Meeting.
C10_Witness ==
    /\ pc = "failed"
    /\ Len(lines) = 3
    /\ FirstInvalid(lines) = 3
    /\ meeting_list # <<>>
    /\ ~mlist.bound
    /\ ~meetings_xml.exists

(***************************************************************************)
(* Properties of the text conversions (SpecCalls).                         *)
(***************************************************************************)
\* C11.  For every ASCII text of the ledger (with apostrophes, '...', \pi
\* and \Delta, ' - ', double quotes, digit-hyphen-digit and a final
\* digit-hyphen), unconvert_text of convert_text of the text is the text.
C11_UnconvertInvertsConvert ==
    pc = "unconverted" => ret = Returned(call.text)

\* A text with a quoted apostrophe, '...', ' - ' and a final digit-hyphen
\* was converted to another text and came back.
C11_Witness ==
    /\ pc = "unconverted"
    /\ call.text = "\"Don't...\" - 7-"
    /\ call.converted = ldquo \o "Don" \o rsquo \o "t" \o hellip \o rdquo \o mdash \o "7" \o ndash
    /\ ret = Returned(call.text)

(***************************************************************************)
(* Properties of the lines of the ledger (Spec).                           *)
(***************************************************************************)
\* The line read by the step, where the step read one.
LineRead == lines'[Len(lines')]
ReadsLine == Len(lines') = Len(lines) + 1

\* The line as the loop slices it (lines 495, 518).
Padded(raw) == LJust(RStrip(raw), LineWidth)

\* A line of columns: not blank, not an underline, not the format header,
\* not a volume header and not a note line.
FixedColumnLine(raw) ==
    /\ RStripChars(RStrip(raw), {"-"}) # ""
    /\ RStrip(raw) # format_hdr
    /\ ~StartsWith(RStrip(raw), "VOLUME ")
    /\ ~StartsWith(RStrip(raw), "(")

\* The columns a to b of the line (counted from 1), without the spaces
\* around.
Column(raw, a, b) == Strip(SubSeq(Padded(raw), a, b))
NumberColumn(raw) == Column(raw, 1, 5)
DateColumn(raw) == Column(raw, 7, 16)
FlagsColumn(raw) == Column(raw, 18, 20)
JointColumn(raw) == Column(raw, 22, 26)
SpeakerColumn(raw) == Column(raw, 28, 59)
DescColumn(raw) == Column(raw, 61, 163)
VenueColumn(raw) == Column(raw, 165, 169)
PageColumn(raw) == Column(raw, 171, 173)
AttendanceColumn(raw) == Column(raw, 175, LineWidth)

NumberAndDateEmpty(raw) == NumberColumn(raw) = "" /\ DateColumn(raw) = ""

\* C12.  A line of columns that is read without an error adds no Meeting
\* exactly when its number and its date are both empty, and then the
\* current meeting stays the current meeting; a line with both empty and a
\* flags, joint, venue, page or attendance column that is not empty makes
\* the decode fail; a line with a number or a date that is read without an
\* error adds one Meeting, which becomes the current meeting.
C12_ContinuationLines ==
    [][(ReadsLine /\ FixedColumnLine(LineRead)) =>
          /\ NumberAndDateEmpty(LineRead) =>
                /\ Len(meeting_list') = Len(meeting_list)
                /\ cur_meeting' = cur_meeting
                /\ (\/ FlagsColumn(LineRead) # ""
                    \/ JointColumn(LineRead) # ""
                    \/ VenueColumn(LineRead) # ""
                    \/ PageColumn(LineRead) # ""
                    \/ AttendanceColumn(LineRead) # "") => pc' = "failed"
          /\ (~NumberAndDateEmpty(LineRead) /\ pc' # "failed") =>
                /\ Len(meeting_list') = Len(meeting_list) + 1
                /\ meeting_list'[Len(meeting_list')].class = "Meeting"
                /\ meeting_list'[Len(meeting_list')].sub # <<>>
                /\ cur_meeting' = Len(meeting_list')]_vars

\* A meeting line, a continuation line that gave the meeting a second sub,
\* and a continuation line with an attendance, on which the decode failed.
C12_Witness ==
    /\ pc = "failed"
    /\ Len(lines) = 3
    /\ ~NumberAndDateEmpty(lines[1])
    /\ NumberAndDateEmpty(lines[2]) /\ AttendanceColumn(lines[2]) = ""
    /\ NumberAndDateEmpty(lines[3]) /\ AttendanceColumn(lines[3]) = "12"
    /\ Len(meeting_list) = 1
    /\ meeting_list[1].class = "Meeting"
    /\ Len(meeting_list[1].sub) = 2

(***************************************************************************)
(* Properties of the archives the decoders return (SpecDecoders).          *)
(***************************************************************************)
\* meetings_from_text returned the archive: it returns the list it built.
ReturnedFromText == mlist.bound /\ mlist.value = meeting_list

\* meetings_from_xml returned the archive reread.value.
ReturnedFromXml == reread.bound

\* Every talk of the archive has one sub and every talks more than one.
SubCountsFit(A) ==
    \A i \in 1..Len(A) :
        A[i].class = "Meeting" =>
            /\ A[i].type = "talk" => Len(A[i].sub) = 1
            /\ A[i].type = "talks" => Len(A[i].sub) > 1

\* The meeting elements of the document with the type t and a number of
\* sub elements in S.
MeetingElements(root, t, S) ==
    {i \in 1..Len(root) :
        /\ root[i].tag = "meeting"
        /\ \E k \in 1..Len(root[i].kids) :
              root[i].kids[k].tag = "type" /\ root[i].kids[k].text = t
        /\ Cardinality({k \in 1..Len(root[i].kids) : root[i].kids[k].tag = "sub"}) \in S}

\* A talk of the document has no sub or several, or a talks has one or none.
DocumentSubCountsBad(root) ==
    \/ MeetingElements(root, "talk", {0} \cup 2..MaxSubs) # {}
    \/ MeetingElements(root, "talks", {0, 1}) # {}

\* C13.  In every archive meetings_from_text or meetings_from_xml returned,
\* every Meeting of type talk has exactly one SubMeeting and every Meeting
\* of type talks more than one; meetings_from_xml raises on a document in
\* which a talk or a talks has another number of subs.
C13_SubCountInvariant ==
    /\ ReturnedFromText => SubCountsFit(mlist.value)
    /\ ReturnedFromXml => SubCountsFit(reread.value)
    /\ (meetings_xml.exists /\ DocumentSubCountsBad(meetings_xml.root) /\ pc # "written")
           => (pc = "failed" /\ ~reread.bound)

\* The document of a talk with two subs was written and meetings_from_xml
\* raised on it.
C13_Witness ==
    /\ pc = "failed"
    /\ meetings_xml.exists
    /\ MeetingElements(meetings_xml.root, "talk", {2}) # {}
    /\ ~reread.bound

\* The line gives neither a description nor a title: its description column
\* is empty (and its speaker column is not 'unminuted'), or holds quotes
\* with nothing between them.
YieldsNeither(raw) ==
    \/ DescColumn(raw) = "" /\ SpeakerColumn(raw) # "unminuted"
    \/ DescColumn(raw) \in {"\"", "\"\""}

\* C14.  Every Meeting of an archive meetings_from_text returned has at
\* least one SubMeeting, and so has every Meeting of the list between two
\* lines; the decode fails on a line with a number or a date that gives
\* neither a description nor a title, with or without a speaker and with or
\* without a type letter, and returns no archive.
C14_NonEmptySub ==
    /\ \A i \in 1..Len(meeting_list) :
          meeting_list[i].class = "Meeting" => meeting_list[i].sub # <<>>
    /\ ReturnedFromText =>
          \A i \in 1..Len(mlist.value) :
              mlist.value[i].class = "Meeting" => mlist.value[i].sub # <<>>
    /\ \A k \in 1..Len(lines) :
          (/\ FixedColumnLine(lines[k])
           /\ ~NumberAndDateEmpty(lines[k])
           /\ YieldsNeither(lines[k]))
              => (k = Len(lines) /\ pc = "failed" /\ ~mlist.bound)

\* The decode failed on a line with a type letter, a venue and a date that
\* lacks only the description.
C14_Witness ==
    /\ pc = "failed"
    /\ Len(lines) = 2
    /\ lines[1] = "VOLUME I\n"
    /\ NumberColumn(lines[2]) = "6"
    /\ FlagsColumn(lines[2]) = "d"
    /\ SpeakerColumn(lines[2]) = ""
    /\ YieldsNeither(lines[2])
    /\ ~mlist.bound

\* The SubMeetings of the Meetings of an archive.
SubsOf(A) ==
    UNION {{A[i].sub[j] : j \in 1..Len(A[i].sub)} :
              i \in {k \in 1..Len(A) : A[k].class = "Meeting"}}

ExactlyOneSet(sub) == Truthy(sub.desc) # Truthy(sub.title)
NotBothSet(sub) == ~(Truthy(sub.desc) /\ Truthy(sub.title))

\* C15, as amended.  No SubMeeting of an archive meetings_from_text or
\* meetings_from_xml returned has both its desc and its title set; every
\* SubMeeting of an archive meetings_from_text returned has exactly one of
\* them set.
C15_DescOrTitle ==
    /\ ReturnedFromText => \A sub \in SubsOf(mlist.value) : ExactlyOneSet(sub)
    /\ ReturnedFromXml => \A sub \in SubsOf(reread.value) : NotBothSet(sub)

\* A ledger gave a Meeting with a sub of a desc and a sub of a title, and
\* the archive was read back from its document.
C15_Witness ==
    /\ ReturnedFromText
    /\ ReturnedFromXml
    /\ Len(lines) = 3
    /\ Len(mlist.value) = 1
    /\ mlist.value[1].class = "Meeting"
    /\ Len(mlist.value[1].sub) = 2
    /\ Truthy(mlist.value[1].sub[1].desc)
    /\ Truthy(mlist.value[1].sub[2].title)
    /\ Len(reread.value[1].sub) = 2
    /\ Truthy(reread.value[1].sub[1].desc)
    /\ Truthy(reread.value[1].sub[2].title)

\* C15 as stated: every SubMeeting of an archive either decoder returned
\* has exactly one of its desc and its title set.
C15_AsStated ==
    /\ ReturnedFromText => \A sub \in SubsOf(mlist.value) : ExactlyOneSet(sub)
    /\ ReturnedFromXml => \A sub \in SubsOf(reread.value) : ExactlyOneSet(sub)

(***************************************************************************)
(* Properties of the type of a new meeting (SpecCalls).                    *)
(***************************************************************************)
\* The places of the type letters of the flags column, and TRUE when a
\* letter is neither a type letter nor a flag letter.
TypeLetterPlaces(flags) == {i \in 1..Len(flags) : Char(flags, i) \in DOMAIN type_map}
HasUnknownLetter(flags) ==
    \E i \in 1..Len(flags) : Char(flags, i) \notin (DOMAIN type_map \cup DOMAIN flag_map)

TalkByContent(speaker, desc) ==
    speaker # "" \/ desc = "(no speaker present)" \/ desc = "(unminuted)"

\* C16.  The flag letters give at most one type: a second type letter and a
\* letter that is neither a type letter nor a flag letter are errors, and
\* one type letter gives its type.  Without a type letter the type is talk
\* for a speaker or the description '(no speaker present)' or
\* '(unminuted)'; else general meeting for a description holding 'General
\* Meeting'; else business meeting for one holding 'Business Meeting'; else
\* discussion for one starting with 'Discussion'; otherwise the decode fails.
C16_TypeDetermination ==
    (pc = "returned" /\ call.fn = "type") =>
        /\ (Cardinality(TypeLetterPlaces(call.flags)) > 1 \/ HasUnknownLetter(call.flags))
              => ret = Raised
        /\ (~HasUnknownLetter(call.flags) /\ Cardinality(TypeLetterPlaces(call.flags)) = 1)
              => \A i \in TypeLetterPlaces(call.flags) :
                     ret = Returned(type_map[Char(call.flags, i)])
        /\ (~HasUnknownLetter(call.flags) /\ TypeLetterPlaces(call.flags) = {}) =>
              IF TalkByContent(call.speaker, call.desc) THEN ret = Returned("talk")
              ELSE IF Contains(call.desc, "General Meeting")
              THEN ret = Returned("general meeting")
              ELSE IF Contains(call.desc, "Business Meeting")
              THEN ret = Returned("business meeting")
              ELSE IF StartsWith(call.desc, "Discussion") THEN ret = Returned("discussion")
              ELSE ret = Raised

\* Flag letters without a type letter, no speaker, and a description that
\* holds 'General Meeting' after 'Business Meeting': a general meeting.
C16_Witness ==
    /\ pc = "returned"
    /\ call.fn = "type"
    /\ call.flags = "tb"
    /\ call.speaker = ""
    /\ call.desc = "Business Meeting before the General Meeting"
    /\ ret = Returned("general meeting")

\* The kinds of line the loop handles before the columns.
BlankLine(raw) == RStrip(raw) = ""
UnderlineLine(raw) == ~BlankLine(raw) /\ RStripChars(RStrip(raw), {"-"}) = ""
FormatHeaderLine(raw) == RStrip(raw) = format_hdr
VolumeHeaderLine(raw) == StartsWith(RStrip(raw), "VOLUME ")
NoteLine(raw) == ~VolumeHeaderLine(raw) /\ StartsWith(RStrip(raw), "(")
IgnoredKind(raw) == BlankLine(raw) \/ UnderlineLine(raw) \/ FormatHeaderLine(raw)

\* No meeting is current when the k-th line of ls is read: of the lines
\* before it that are not of an ignored kind, the last is a volume header or
\* a note line, or there is none.
NoMeetingCurrentAt(ls, k) ==
    \A j \in 1..(k - 1) :
        (/\ ~IgnoredKind(ls[j])
         /\ \A i \in (j + 1)..(k - 1) : IgnoredKind(ls[i]))
            => (VolumeHeaderLine(ls[j]) \/ NoteLine(ls[j]))

\* The lines without the k-th.
Without(ls, k) == SubSeq(ls, 1, k - 1) \o SubSeq(ls, k + 1, Len(ls))

\* The loop over the lines ls from the k-th on, from the state st: whether
\* it raised, and the state it left.
RECURSIVE outcome_from(_, _, _)
outcome_from(ls, k, st) ==
    IF k > Len(ls) THEN [failed |-> FALSE, st |-> st]
    ELSE IF read_line_raises(st, ls[k]) THEN [failed |-> TRUE, st |-> st]
    ELSE outcome_from(ls, k + 1, read_line(st, ls[k]))

\* meetings_from_text raised.
DecodeFailed == pc = "failed" /\ ~mlist.bound

\* The decode of the lines read is the decode of the lines ls.
SameDecodeAs(ls) ==
    outcome_from(ls, 1, loop_init) = [failed |-> DecodeFailed, st |-> loop_state]

\* C17, as amended.  A blank line is ignored wherever it occurs, and an
\* underline and the format header are ignored where no meeting is current:
\* the decode of the ledger is the decode of the ledger without the line,
\* with the same entries, the same current volume and the same current
\* meeting.  An underline or a format header read while a meeting is
\* current makes the decode fail.
C17_IgnoredLines ==
    \A k \in 1..Len(lines) :
        /\ (BlankLine(lines[k]) \/ (IgnoredKind(lines[k]) /\ NoMeetingCurrentAt(lines, k)))
              => SameDecodeAs(Without(lines, k))
        /\ (IgnoredKind(lines[k]) /\ ~BlankLine(lines[k]) /\ ~NoMeetingCurrentAt(lines, k))
              => (k = Len(lines) /\ DecodeFailed)

\* A blank line between a meeting line and its continuation line: the
\* meeting has the two subs.
C17_Witness ==
    /\ pc = "reading"
    /\ Len(lines) = 3
    /\ ~NumberAndDateEmpty(lines[1]) /\ FixedColumnLine(lines[1])
    /\ BlankLine(lines[2])
    /\ NumberAndDateEmpty(lines[3]) /\ FixedColumnLine(lines[3])
    /\ Len(meeting_list) = 1
    /\ meeting_list[1].class = "Meeting"
    /\ Len(meeting_list[1].sub) = 2
    /\ cur_meeting = 1

\* C17 as stated: a blank line, an underline and the format header are
\* ignored wherever they occur.
C17_AsStated ==
    \A k \in 1..Len(lines) : IgnoredKind(lines[k]) => SameDecodeAs(Without(lines, k))

(***************************************************************************)
(* Properties of the flags written (SpecDecoders).                         *)
(***************************************************************************)
\* The texts of the flag elements of a meeting element, in their order.
IsFlagElement(e) == e.tag = "flag"
DocFlags(elem) ==
    [i \in 1..Len(SelectSeq(elem.kids, IsFlagElement)) |->
        SelectSeq(elem.kids, IsFlagElement)[i].text]

\* The flags of a sequence of flags in the order of the enumeration, each
\* once.
CanonicalFlags(flags) == SelectSeq(meeting_flags, LAMBDA f : \E i \in 1..Len(flags) : flags[i] = f)

\* The flags of the flag letters of a flags column, from the i-th letter on.
RECURSIVE letter_flags(_, _)
letter_flags(col, i) ==
    IF i > Len(col) THEN <<>>
    ELSE (IF Char(col, i) \in DOMAIN flag_map THEN <<flag_map[Char(col, i)]>> ELSE <<>>)
         \o letter_flags(col, i + 1)

\* The n-th element of a set of numbers.
NthOf(S, n) == CHOOSE x \in S : Cardinality({y \in S : y <= x}) = n

MeetingPlaces(A) == {i \in 1..Len(A) : A[i].class = "Meeting"}
NewMeetingLinePlaces(ls) ==
    {k \in 1..Len(ls) : FixedColumnLine(ls[k]) /\ ~NumberAndDateEmpty(ls[k])}

\* C18, as amended.  The structured encoder emits one flag element for each
\* flag the Meeting was supplied with, in the order they were supplied in:
\* the order of the flag letters of the line of the ledger, and the order of
\* the flag elements of the document read.
C18_FlagOrder ==
    /\ meetings_xml.exists =>
          \A i \in MeetingPlaces(mlist.value) :
              DocFlags(meetings_xml.root[i]) = mlist.value[i].flags
    /\ (ReturnedFromText /\ meetings_xml.exists) =>
          \A n \in 1..Cardinality(MeetingPlaces(mlist.value)) :
              DocFlags(meetings_xml.root[NthOf(MeetingPlaces(mlist.value), n)])
                  = letter_flags(FlagsColumn(lines[NthOf(NewMeetingLinePlaces(lines), n)]), 1)
    /\ meetings_new_xml.exists =>
          \A i \in MeetingPlaces(reread.value) :
              DocFlags(meetings_new_xml.root[i]) = DocFlags(meetings_xml.root[i])

\* The flag letters 'tbt' of a line were written, and written again from
\* the document, as televised, non-election business, televised.
C18_Witness ==
    /\ pc = "rewritten"
    /\ Len(lines) = 2
    /\ FlagsColumn(lines[2]) = "tbt"
    /\ DocFlags(meetings_xml.root[1])
           = <<"televised", "non-election business", "televised">>
    /\ DocFlags(meetings_new_xml.root[1]) = DocFlags(meetings_xml.root[1])

\* C18 as stated: the flag elements written are the flags supplied in the
\* order of the enumeration, each once.
C18_AsStated ==
    /\ meetings_xml.exists =>
          \A i \in MeetingPlaces(mlist.value) :
              DocFlags(meetings_xml.root[i]) = CanonicalFlags(mlist.value[i].flags)
    /\ meetings_new_xml.exists =>
          \A i \in MeetingPlaces(reread.value) :
              DocFlags(meetings_new_xml.root[i]) = CanonicalFlags(DocFlags(meetings_xml.root[i]))

(***************************************************************************)
(* Properties of the current volume and the current meeting (Spec).        *)
(***************************************************************************)
\* The number of the roman numeral of a volume header.
VolumeOfHeader(raw) == volumes[Drop(RStrip(raw), Len("VOLUME "))]

\* The places of the volume headers before the k-th line.
VolumeHeadersBefore(ls, k) == {j \in 1..(k - 1) : VolumeHeaderLine(ls[j])}

\* The number of the last volume header before the k-th line, None where no
\* volume header comes before it.
VolumeBefore(ls, k) ==
    IF VolumeHeadersBefore(ls, k) = {} THEN None
    ELSE VolumeOfHeader(ls[Greatest(VolumeHeadersBefore(ls, k))])

\* The Meeting of the n-th new-meeting line has the volume v(k), k the place
\* of that line.
MeetingVolumesAre(v(_)) ==
    \A n \in 1..Cardinality(MeetingPlaces(meeting_list)) :
        meeting_list[NthOf(MeetingPlaces(meeting_list), n)].volume
            = v(NthOf(NewMeetingLinePlaces(lines), n))

VolumeBeforeLine(k) == VolumeBefore(lines, k)

\* The volume header was the last line read.
VolumeHeaderRead ==
    /\ lines # <<>>
    /\ VolumeHeaderLine(lines[Len(lines)])
    /\ ~DecodeFailed

VolumeHeaderSetsVolume ==
    VolumeHeaderRead =>
        (cur_volume = VolumeOfHeader(lines[Len(lines)]) /\ cur_meeting = 0)

\* C19, as amended.  A 'VOLUME <roman>' line sets the current volume to the
\* number of the roman numeral and clears the current meeting; every
\* Meeting carries as its volume the number of the last volume header before
\* its first line, and a Meeting whose first line no volume header comes
\* before is created with the volume None.
C19_VolumeTracking ==
    /\ VolumeHeaderSetsVolume
    /\ MeetingVolumesAre(VolumeBeforeLine)
    /\ ReturnedFromText =>
          \A i \in MeetingPlaces(mlist.value) :
              mlist.value[i].volume \in {None} \cup {volumes[r] : r \in DOMAIN volumes}

\* A meeting line after the headers of volume I and of volume II gave a
\* Meeting of volume 2.
C19_Witness ==
    /\ pc = "decoded"
    /\ Len(lines) = 3
    /\ lines[1] = "VOLUME I\n"
    /\ lines[2] = "VOLUME II\n"
    /\ Len(mlist.value) = 1
    /\ mlist.value[1].class = "Meeting"
    /\ mlist.value[1].volume = "2"

\* The volume of a Meeting as C19 states it: the number of a volume header,
\* never None.  An impossible number stands where there is no header.
DefinedVolumeBeforeLine(k) ==
    IF VolumeHeadersBefore(lines, k) = {} THEN "0" ELSE VolumeBefore(lines, k)

\* C19 as stated: every Meeting carries the number of the last volume header
\* before its first line, so no Meeting has an undefined volume.
C19_AsStated ==
    /\ VolumeHeaderSetsVolume
    /\ MeetingVolumesAre(DefinedVolumeBeforeLine)
    /\ \A i \in MeetingPlaces(meeting_list) : meeting_list[i].volume # None

\* The sub sequence after is the sub sequence before with one SubMeeting
\* more, or with one Speaker more in its last SubMeeting.
SubAppended(before, after) ==
    /\ Len(after) = Len(before) + 1
    /\ SubSeq(after, 1, Len(before)) = before

SpeakerAppended(before, after) ==
    /\ before # <<>>
    /\ Len(after) = Len(before)
    /\ \A j \in 1..(Len(before) - 1) : after[j] = before[j]
    /\ Len(after[Len(after)].speakers) = Len(before[Len(before)].speakers) + 1
    /\ after[Len(after)] =
          [before[Len(before)] EXCEPT !.speakers = Append(@, after[Len(after)].speakers[Len(@) + 1])]

\* C20.  A step of the loop leaves every entry it found in the list but the
\* last as it is, and changes the last only when it reads a continuation
\* line while that entry is the Meeting of the most recent new-meeting line,
\* no volume header and no note line having been read since: the Meeting
\* then gets one SubMeeting more, or its last SubMeeting one Speaker more.
\* A new-meeting line adds its own Meeting with its SubMeeting.  A
\* continuation line read when no meeting is current - none was started, or
\* a volume header or a note line has been read since - makes the decode
\* fail.
C20_AttachToCurrentMeeting ==
    [][/\ Len(meeting_list') >= Len(meeting_list)
       /\ \A i \in 1..(Len(meeting_list) - 1) : meeting_list'[i] = meeting_list[i]
       /\ (meeting_list # <<>> /\ meeting_list'[Len(meeting_list)] # meeting_list[Len(meeting_list)])
             => /\ ReadsLine
                /\ FixedColumnLine(LineRead) /\ NumberAndDateEmpty(LineRead)
                /\ ~NoMeetingCurrentAt(lines', Len(lines'))
                /\ cur_meeting = Len(meeting_list) /\ cur_meeting' = cur_meeting
                /\ Len(meeting_list') = Len(meeting_list)
                /\ meeting_list[cur_meeting].class = "Meeting"
                /\ \/ SubAppended(meeting_list[cur_meeting].sub, meeting_list'[cur_meeting].sub)
                   \/ SpeakerAppended(meeting_list[cur_meeting].sub,
                                      meeting_list'[cur_meeting].sub)
       /\ (ReadsLine /\ FixedColumnLine(LineRead) /\ NumberAndDateEmpty(LineRead)
           /\ NoMeetingCurrentAt(lines', Len(lines')))
             => (pc' = "failed" /\ meeting_list' = meeting_list)
       /\ (ReadsLine /\ FixedColumnLine(LineRead) /\ NumberAndDateEmpty(LineRead)
           /\ pc' # "failed")
             => meeting_list'[Len(meeting_list)] # meeting_list[Len(meeting_list)]]_vars

\* Two meeting lines and a continuation line with a speaker only: the
\* second Meeting has the speaker, the first is as it was.
C20_Witness ==
    /\ pc = "reading"
    /\ Len(lines) = 3
    /\ SpeakerColumn(lines[3]) # "" /\ DescColumn(lines[3]) = ""
    /\ NumberAndDateEmpty(lines[3])
    /\ Len(meeting_list) = 2
    /\ meeting_list[1].class = "Meeting" /\ meeting_list[2].class = "Meeting"
    /\ Len(meeting_list[1].sub[1].speakers) = 1
    /\ Len(meeting_list[2].sub) = 1
    /\ Len(meeting_list[2].sub[1].speakers) = 2
    /\ cur_meeting = 2

(***************************************************************************)
(* The text conversion against the guard of the constructors (SpecCalls).  *)
(***************************************************************************)
\* A space and a hyphen that are not the start of ' - ': convert_text
\* leaves them, the other replacements touching no space and no hyphen.
SpaceHyphenLeft(t) == Contains(Replace(t, " - ", mdash), " -")

\* Digit-hyphen-digit-hyphen-digit: two digit-hyphen-digit that share a
\* digit.
HasDigitHyphenChain(t) ==
    \E i \in 1..(Len(t) - 4) :
        /\ IsDigit(Char(t, i))
        /\ Char(t, i + 1) = "-"
        /\ IsDigit(Char(t, i + 2))
        /\ Char(t, i + 3) = "-"
        /\ IsDigit(Char(t, i + 4))

=============================================================================
